---- MODULE Spec2Model ----
(***************************************************************************)
(* Model of mikebway/slog: the S3 web-log reading pipeline of package s3   *)
(* (s3/core.go, s3/session.go).                                            *)
(*                                                                         *)
(* Go strings are modelled as TLA+ strings (byte sequences restricted to   *)
(* printable ASCII and line feed); Go string comparison is the bytewise    *)
(* lexical order given by StrCmp.  A time.Time is modelled as a whole      *)
(* number of seconds since the Unix epoch: UTC() keeps the instant and     *)
(* Format renders it in UTC.                                               *)
(***************************************************************************)
EXTENDS Integers, Sequences, FiniteSets, TLC

(***************************************************************************)
(* Bounds of the model.                                                    *)
(***************************************************************************)
\* Number of seconds after the first instant that windows and objects span.
MaxSpan == 3
\* Page size of the listing; the package variable maxListKeys (100 by
\* default, "can be overridden for unit testing") set to a small page.
maxListKeys == 2
\* Direct calls of activateSession made before DisplayLog is called.
MaxActivations == 2
\* Longest bucket name and request id of the generated access-log records.
MaxFieldLen == 3
\* Largest number of lines, ended by a line feed or not, in a generated buffer.
MaxLines == 3
\* Number of seconds after TestEndUnix spanned by the window and the store
\* of a long run, which sends more keys than the two channels hold.
LongSpan == 4

(***************************************************************************)
(* Program constants.                                                      *)
(***************************************************************************)
\* make(chan string, 5)
KeyChanCap == 5
\* make(chan *aws.WriteAtBuffer, 5)
DataChanCap == 5
\* SLOG_TEST_END_DATETIME=2020-03-20T14:00:00Z, as Unix seconds.
TestEndUnix == 1584712800
\* The ContentType enumeration (iota).
BASIC == 0
REQUESTID == 1
BUCKET == 2
RICH == 3
RAW == 4
\* TestReadBadContentType: RAW + 197, "not a valid content type".
BadContent == 201

(***************************************************************************)
(* Strings.                                                                *)
(***************************************************************************)
\* The bytes used by keys and log lines, in increasing byte order.
Ascii == "\n !\"#$%&'()*+,-./0123456789:;<=>?@ABCDEFGHIJKLMNOPQRSTUVWXYZ[\\]^_abcdefghijklmnopqrstuvwxyz{|}~"

Ord(c) == CHOOSE i \in 1..Len(Ascii) : SubSeq(Ascii, i, i) = c

\* Go's a < b on strings: a is a proper prefix of b, or at the first position
\* at which they differ the byte of a is the smaller one.
StrLess(a, b) ==
    \/ Len(a) < Len(b) /\ a = SubSeq(b, 1, Len(a))
    \/ \E i \in 1..(IF Len(a) < Len(b) THEN Len(a) ELSE Len(b)) :
          /\ SubSeq(a, 1, i - 1) = SubSeq(b, 1, i - 1)
          /\ SubSeq(a, i, i) # SubSeq(b, i, i)
          /\ Ord(SubSeq(a, i, i)) < Ord(SubSeq(b, i, i))

\* Three-way bytewise comparison of a and b.
StrCmp(a, b) == IF a = b THEN 0 ELSE IF StrLess(a, b) THEN -1 ELSE 1

\* Go's a > b on strings.
StrGreater(a, b) == StrLess(b, a)

HasPrefix(s, p) == Len(s) >= Len(p) /\ SubSeq(s, 1, Len(p)) = p

\* strings.Split(s, sep) for a one-byte separator, from byte from on: the
\* piece up to the first separator, then the pieces of what follows it;
\* always at least one piece.
RECURSIVE SplitFrom(_, _, _)
SplitFrom(s, sep, from) ==
    LET at == { j \in from..Len(s) : SubSeq(s, j, j) = sep }
    IN  IF at = {} THEN << SubSeq(s, from, Len(s)) >>
        ELSE LET p == CHOOSE j \in at : \A k \in at : j <= k
             IN  << SubSeq(s, from, p - 1) >> \o SplitFrom(s, sep, p + 1)

Split(s, sep) == SplitFrom(s, sep, 1)

\* strings.Join(parts, sep).
RECURSIVE Join(_, _)
Join(parts, sep) ==
    IF Len(parts) = 0 THEN ""
    ELSE IF Len(parts) = 1 THEN parts[1]
    ELSE parts[1] \o sep \o Join(Tail(parts), sep)

\* The Go slice expression parts[lo:hi] (0-based, hi exclusive).
Slice(parts, lo, hi) == SubSeq(parts, lo + 1, hi)

(***************************************************************************)
(* time.Time.UTC().Format("2006-01-02-15-04-05")                           *)
(***************************************************************************)
Digit(d) == SubSeq("0123456789", d + 1, d + 1)

Pad2(n) == Digit((n \div 10) % 10) \o Digit(n % 10)

Pad4(n) == Pad2(n \div 100) \o Pad2(n % 100)

\* Civil date of a day number counted from 1970-01-01 (proleptic Gregorian).
CivilFromDays(days) ==
    LET z   == days + 719468
        era == z \div 146097
        doe == z - era * 146097
        yoe == (doe - doe \div 1460 + doe \div 36524 - doe \div 146096) \div 365
        doy == doe - (365 * yoe + yoe \div 4 - yoe \div 100)
        mp  == (5 * doy + 2) \div 153
        d   == doy - (153 * mp + 2) \div 5 + 1
        m   == IF mp < 10 THEN mp + 3 ELSE mp - 9
        y   == yoe + era * 400 + (IF m <= 2 THEN 1 ELSE 0)
    IN  [year |-> y, month |-> m, day |-> d]

\* keyTimeFormat = "2006-01-02-15-04-05" applied to the instant t in UTC.
FormatKeyTime(t) ==
    LET date == CivilFromDays(t \div 86400)
        secs == t % 86400
    IN  Pad4(date.year) \o "-" \o Pad2(date.month) \o "-" \o Pad2(date.day)
        \o "-" \o Pad2(secs \div 3600) \o "-" \o Pad2((secs % 3600) \div 60)
        \o "-" \o Pad2(secs % 60)

(***************************************************************************)
(* The session parameters and the object store.                            *)
(***************************************************************************)
\* SlogSession.Folder: the default of the --path flag.
Folder == "root"

\* A nil *string in a listing entry (obj.Key == nil).
NilKey == "<nil>"

\* The instants from which window limits are drawn.
Times == (TestEndUnix - 1)..(TestEndUnix - 1 + MaxSpan)

\* What the store appends to the timestamp of a key; "" gives a key that is
\* exactly a cursor string.
Suffixes == {"", "-A", "-B"}

\* One access-log record served from bucket b1, and one served from b2.
LineA == "o b1 [t +0] i r q1 G k \"G /k H\" 200 - 9 9 1 1 \"-\" \"U a\" - h s c a e T"
LineB == "o b2 [t +0] i r q2 G k \"G /k H\" 404 - 9 9 1 1 \"-\" \"U a b\" - h s c a e T"

LogKey(folder, t, sfx) == folder \o "/" \o FormatKeyTime(t) \o sfx

\* The keys of S in increasing byte order.
RECURSIVE SortKeys(_)
SortKeys(S) ==
    IF S = {} THEN << >>
    ELSE LET least == CHOOSE k \in S : \A o \in S : StrCmp(k, o) <= 0
         IN  << least >> \o SortKeys(S \ {least})

\* The bucket after the log delivery has written the objects of every second
\* from TestEndUnix up to lastStamp, and one object of another folder; the
\* store keeps its keys in increasing byte order.
StoreUpTo(lastStamp) ==
    SortKeys({ LogKey(Folder, t, sfx) : t \in TestEndUnix..lastStamp, sfx \in Suffixes }
             \cup { LogKey("tmp", TestEndUnix, "-A") })

Stores == { StoreUpTo(t) : t \in Times }

\* The part of a key after the folder prefix and the 19-byte timestamp.
KeySuffix(key) ==
    LET n == Len(Split(key, "/")[1]) + 1 + 19
    IN  SubSeq(key, n + 1, Len(key))

\* The stored bytes of an object: blank for a key without suffix, one record
\* for -A, two records around a blank line for any other suffix.
ObjectBody(key) ==
    IF KeySuffix(key) = "" THEN "\n"
    ELSE IF KeySuffix(key) = "-A" THEN LineA \o "\n"
    ELSE LineA \o "\n\n" \o LineB \o "\n"

\* A listing that ignores the StartAfter cursor of the request.
ListObjectsV2_IgnoresStartAfter(bucket, prefix, after, maxKeys) ==
    LET Listed(k) == HasPrefix(k, prefix)
        all == SelectSeq(bucket, Listed)
        n   == IF Len(all) < maxKeys THEN Len(all) ELSE maxKeys
    IN  [Contents |-> SubSeq(all, 1, n), IsTruncated |-> Len(all) > n]

\* One ListObjectsV2 request: at most maxKeys keys under prefix that come
\* strictly after the cursor (StartAfter, or the continuation of the
\* previous page), in increasing order.
ListObjectsV2(bucket, prefix, after, maxKeys) ==
    LET Listed(k) == HasPrefix(k, prefix) /\ StrGreater(k, after)
        all == SelectSeq(bucket, Listed)
        n   == IF Len(all) < maxKeys THEN Len(all) ELSE maxKeys
    IN  [Contents |-> SubSeq(all, 1, n), IsTruncated |-> Len(all) > n]

\* fetchLogObjectKeys: the two cursor strings.
startAfterKey(folder, start) == folder \o "/" \o FormatKeyTime(start)
endAfterKey(folder, end) == folder \o "/" \o FormatKeyTime(end)

\* The callback with the window-exit test written key >= endAfter.
KeyAction_StopAtCursor(key, folder, endAfter) ==
    IF key = NilKey \/ key = folder THEN "skip"
    ELSE IF StrCmp(key, endAfter) >= 0 THEN "stop"
    ELSE "emit"

\* The body of the page callback for one listing entry.
KeyAction(key, folder, endAfter) ==
    IF key = NilKey \/ key = folder THEN "skip"
    ELSE IF StrGreater(key, endAfter) THEN "stop"
    ELSE "emit"

(***************************************************************************)
(* Rendering of one log line.                                              *)
(***************************************************************************)
\* What a slice expression out of range does to the process.
SlicePanic == "panic: runtime error: slice bounds out of range"

\* basicContent taking the middle block up to a fixed field, the one at
\* which a user agent of one word ends.
basicContent_FixedCount(line) ==
    LET parts == Split(line, " ")
        count == Len(parts)
    IN  IF count < 16 THEN SlicePanic
        ELSE Join(Slice(parts, 2, 5), " ") \o " " \o Join(Slice(parts, 9, 20), " ")

basicContent(line) ==
    LET parts == Split(line, " ")
        count == Len(parts)
    IN  IF count < 16 THEN SlicePanic
        ELSE Join(Slice(parts, 2, 5), " ") \o " " \o Join(Slice(parts, 9, count - 7), " ")

\* requestContent taking the requester field for the request id.
requestContent_Requester(line) ==
    LET parts == Split(line, " ")
        count == Len(parts)
    IN  IF count < 16 THEN SlicePanic
        ELSE Join(Slice(parts, 2, 5), " ") \o " " \o parts[6] \o " "
             \o Join(Slice(parts, 9, count - 7), " ")

requestContent(line) ==
    LET parts == Split(line, " ")
        count == Len(parts)
    IN  IF count < 16 THEN SlicePanic
        ELSE Join(Slice(parts, 2, 5), " ") \o " " \o parts[7] \o " "
             \o Join(Slice(parts, 9, count - 7), " ")

\* bucketContent leaving out the serving bucket field.
bucketContent_FromField2(line) ==
    LET parts == Split(line, " ")
        count == Len(parts)
    IN  IF count < 16 THEN SlicePanic
        ELSE Join(Slice(parts, 2, 5), " ") \o " " \o Join(Slice(parts, 9, count - 7), " ")

bucketContent(line) ==
    LET parts == Split(line, " ")
        count == Len(parts)
    IN  IF count < 16 THEN SlicePanic
        ELSE Join(Slice(parts, 1, 5), " ") \o " " \o Join(Slice(parts, 9, count - 7), " ")

\* richContent leaving out the request id, operation and key fields.
richContent_FromField9(line) ==
    LET parts == Split(line, " ")
        count == Len(parts)
    IN  IF count < 13 THEN SlicePanic
        ELSE Join(Slice(parts, 1, 5), " ") \o " " \o Join(Slice(parts, 9, count - 7), " ")

richContent(line) ==
    LET parts == Split(line, " ")
        count == Len(parts)
    IN  IF count < 13 THEN SlicePanic
        ELSE Join(Slice(parts, 1, 5), " ") \o " " \o Join(Slice(parts, 6, count - 7), " ")

\* The decimal text of an integer (the verb %d).
RECURSIVE NatText(_)
NatText(n) == IF n < 10 THEN Digit(n) ELSE NatText(n \div 10) \o Digit(n % 10)

IntText(n) == IF n < 0 THEN "-" \o NatText(0 - n) ELSE NatText(n)

\* window.Seconds() printed with the verb %v, for a duration of whole
\* seconds: the float64 is written with its decimal digits below a million
\* seconds, and from there on with its digits up to the last that is not 0
\* and a two-digit exponent (1.0368e+06).
SecondsText(n) ==
    LET m      == IF n < 0 THEN 0 - n ELSE n
        digits == NatText(m)
        last   == CHOOSE k \in 1..Len(digits) :
                      /\ k = 1 \/ SubSeq(digits, k, k) # "0"
                      /\ \A j \in (k + 1)..Len(digits) : SubSeq(digits, j, j) = "0"
    IN  (IF n < 0 THEN "-" ELSE "")
        \o (IF m < 1000000 THEN digits
            ELSE SubSeq(digits, 1, 1)
                 \o (IF last > 1 THEN "." \o SubSeq(digits, 2, last) ELSE "")
                 \o "e+" \o Pad2(Len(digits) - 1))

\* The error values that reach the caller of DisplayLog.
ErrNewSession == "session.NewSession failed"
ErrList == "ListObjectsV2Pages failed"
ErrDownload == "Download failed"
\* fmt.Errorf("No implementation for content type: %d", session.Content)
ErrContent(content) == "No implementation for content type: " \o IntText(content)
NoErr == "nil"

\* displaySelectLogData printing a line for every piece of the split, the
\* zero-length ones included.
RECURSIVE SelectFrom_KeepsBlank(_, _, _)
SelectFrom_KeepsBlank(content, lines, i) ==
    IF i > Len(lines) THEN [writes |-> << >>, err |-> NoErr]
    ELSE IF content \notin {BASIC, REQUESTID, BUCKET, RICH}
         THEN [writes |-> << >>, err |-> ErrContent(content)]
    ELSE LET line == IF Len(lines[i]) = 0 THEN ""
                     ELSE CASE content = BASIC -> basicContent(lines[i])
                            [] content = REQUESTID -> requestContent(lines[i])
                            [] content = BUCKET -> bucketContent(lines[i])
                            [] OTHER -> richContent(lines[i])
             rest == SelectFrom_KeepsBlank(content, lines, i + 1)
         IN  IF line = SlicePanic THEN [writes |-> << >>, err |-> SlicePanic]
             ELSE [writes |-> << line \o "\n" >> \o rest.writes, err |-> rest.err]

\* displaySelectLogData over the lines from position i on: what each
\* fmt.Println writes, in order, and the error returned; a slice expression
\* out of range stops it at that line with what was printed before.
RECURSIVE SelectFrom(_, _, _)
SelectFrom(content, lines, i) ==
    IF i > Len(lines) THEN [writes |-> << >>, err |-> NoErr]
    ELSE IF Len(lines[i]) = 0 THEN SelectFrom(content, lines, i + 1)
    ELSE IF content \notin {BASIC, REQUESTID, BUCKET, RICH}
         THEN [writes |-> << >>, err |-> ErrContent(content)]
    ELSE LET line == CASE content = BASIC -> basicContent(lines[i])
                       [] content = REQUESTID -> requestContent(lines[i])
                       [] content = BUCKET -> bucketContent(lines[i])
                       [] OTHER -> richContent(lines[i])
             rest == SelectFrom(content, lines, i + 1)
         IN  IF line = SlicePanic THEN [writes |-> << >>, err |-> SlicePanic]
             ELSE [writes |-> << line \o "\n" >> \o rest.writes, err |-> rest.err]

displaySelectLogData(content, bytes) == SelectFrom(content, Split(bytes, "\n"), 1)

(***************************************************************************)
(* Machine integers of the command line (package cmd).                     *)
(*                                                                         *)
(* A Go int, and a time.Duration, is a 64-bit two's complement word.  It   *)
(* is modelled as four 16-bit limbs, least significant first, so that      *)
(* products wrap modulo 2^64 as they do in Go.                             *)
(***************************************************************************)
\* The radix of a limb, and the limb value from which the sign bit is set.
LimbBase == 65536
SignLimb == 32768
\* Limbs of an int and of a time.Duration.
IntLimbs == 4

\* A word of n limbs holding zero.
WZero(n) == [k \in 1..n |-> 0]

\* w * c + d for a word w and naturals c and d below 2^15, in the width of
\* w: the resulting limbs from limb k on, and the carry out of the top limb.
RECURSIVE WMulAddFrom(_, _, _, _)
WMulAddFrom(w, c, d, k) ==
    IF k > Len(w) THEN [word |-> << >>, carry |-> d]
    ELSE LET t == w[k] * c + d
             rest == WMulAddFrom(w, c, t \div LimbBase, k + 1)
         IN  [word |-> << t % LimbBase >> \o rest.word, carry |-> rest.carry]

WMulAdd(w, c, d) == WMulAddFrom(w, c, d, 1)

\* w * c wrapped to the width of w.
WMul(w, c) == WMulAdd(w, c, 0).word

\* w multiplied in turn by each of the factors, wrapped.
RECURSIVE WMulAll(_, _)
WMulAll(w, factors) ==
    IF Len(factors) = 0 THEN w ELSE WMulAll(WMul(w, Head(factors)), Tail(factors))

\* -w wrapped: the two's complement of w.
WNeg(w) == WMulAdd([k \in 1..Len(w) |-> LimbBase - 1 - w[k]], 1, 1).word

WIsNeg(w) == w[Len(w)] >= SignLimb

\* The signed word w in n limbs, n at least its own width.
WExtend(w, n) ==
    [k \in 1..n |-> IF k <= Len(w) THEN w[k]
                    ELSE IF WIsNeg(w) THEN LimbBase - 1 ELSE 0]

\* Quotient and remainder of the unsigned word w by c below 2^15, from limb
\* k down, rem being the remainder of the limbs above k.
RECURSIVE WDivModFrom(_, _, _, _)
WDivModFrom(w, c, k, rem) ==
    IF k = 0 THEN [word |-> << >>, rem |-> rem]
    ELSE LET t == rem * LimbBase + w[k]
             low == WDivModFrom(w, c, k - 1, t % c)
         IN  [word |-> low.word \o << t \div c >>, rem |-> low.rem]

WDivMod(w, c) == WDivModFrom(w, c, Len(w), 0)

\* The natural number held by the limbs of an unsigned word from limb k on,
\* in units of limb k.
RECURSIVE WToNatFrom(_, _)
WToNatFrom(w, k) ==
    IF k > Len(w) THEN 0 ELSE w[k] + LimbBase * WToNatFrom(w, k + 1)

WToNat(w) == WToNatFrom(w, 1)

\* The whole seconds of a duration of d nanoseconds, rounded down: what
\* Time.Add(d) adds to the seconds of an instant that has no fraction.
FloorSeconds(d) ==
    LET m  == IF WIsNeg(d) THEN WNeg(d) ELSE d
        q1 == WDivMod(m, 1000)
        q2 == WDivMod(q1.word, 1000)
        q3 == WDivMod(q2.word, 1000)
        whole == q1.rem = 0 /\ q2.rem = 0 /\ q3.rem = 0
    IN  IF ~WIsNeg(d) THEN WToNat(q3.word)
        ELSE IF whole THEN 0 - WToNat(q3.word)
        ELSE 0 - WToNat(q3.word) - 1

(***************************************************************************)
(* strconv.Atoi and time.Parse(time.RFC3339, s)                            *)
(***************************************************************************)
IsDigit(c) == \E d \in 0..9 : Digit(d) = c

DigitVal(c) == CHOOSE d \in 0..9 : Digit(d) = c

AllDigits(s) == \A k \in 1..Len(s) : IsDigit(SubSeq(s, k, k))

\* The decimal digits of s from position k on, accumulated onto the word w;
\* over tells whether the value left the width of w.
RECURSIVE MagnitudeFrom(_, _, _, _)
MagnitudeFrom(s, k, w, over) ==
    IF k > Len(s) THEN [word |-> w, over |-> over]
    ELSE LET r == WMulAdd(w, 10, DigitVal(SubSeq(s, k, k)))
         IN  MagnitudeFrom(s, k + 1, r.word, over \/ r.carry # 0)

\* strconv.Atoi on a 64-bit platform: an optional sign and decimal digits,
\* the value within [-2^63, 2^63 - 1]; err for any other string.
Atoi(s) ==
    LET signed == Len(s) > 0 /\ SubSeq(s, 1, 1) \in {"+", "-"}
        neg    == Len(s) > 0 /\ SubSeq(s, 1, 1) = "-"
        digits == IF signed THEN SubSeq(s, 2, Len(s)) ELSE s
        m      == MagnitudeFrom(digits, 1, WZero(IntLimbs), FALSE)
        minInt == [k \in 1..IntLimbs |-> IF k = IntLimbs THEN SignLimb ELSE 0]
    IN  IF Len(digits) = 0 \/ ~AllDigits(digits) THEN [i |-> WZero(IntLimbs), err |-> TRUE]
        ELSE IF m.over \/ (WIsNeg(m.word) /\ ~(neg /\ m.word = minInt))
             THEN [i |-> WZero(IntLimbs), err |-> TRUE]
        ELSE [i |-> IF neg THEN WNeg(m.word) ELSE m.word, err |-> FALSE]

\* The number of the two decimal digits of s at positions k and k + 1.
Num2(s, k) == DigitVal(SubSeq(s, k, k)) * 10 + DigitVal(SubSeq(s, k + 1, k + 1))

\* Day number counted from 1970-01-01 of a civil date (proleptic Gregorian),
\* the inverse of CivilFromDays.
DaysFromCivil(y, m, d) ==
    LET yy  == IF m <= 2 THEN y - 1 ELSE y
        era == yy \div 400
        yoe == yy - era * 400
        mp  == IF m > 2 THEN m - 3 ELSE m + 9
        doy == (153 * mp + 2) \div 5 + d - 1
        doe == yoe * 365 + yoe \div 4 - yoe \div 100 + doy
    IN  era * 146097 + doe - 719468

\* time.RFC3339, and the quoting of the texts of a time.ParseError.
RFC3339 == "2006-01-02T15:04:05Z07:00"
Quote(s) == "\"" \o s \o "\""

\* ParseError.Error() without and with a message of its own.
ParseErr(value, layoutElem, valueElem) ==
    "parsing time " \o Quote(value) \o " as " \o Quote(RFC3339)
    \o ": cannot parse " \o Quote(valueElem) \o " as " \o Quote(layoutElem)
RangeErr(value, message) == "parsing time " \o Quote(value) \o message

\* getnum of package time: the number of the leading one or two digits of
\* s and the rest of s; two digits are required when fixed.
getnum(s, fixed) ==
    IF ~(Len(s) >= 1 /\ IsDigit(SubSeq(s, 1, 1)))
    THEN [n |-> 0, rest |-> s, err |-> TRUE]
    ELSE IF ~(Len(s) >= 2 /\ IsDigit(SubSeq(s, 2, 2)))
         THEN IF fixed THEN [n |-> 0, rest |-> s, err |-> TRUE]
              ELSE [n |-> DigitVal(SubSeq(s, 1, 1)),
                    rest |-> SubSeq(s, 2, Len(s)), err |-> FALSE]
    ELSE [n |-> Num2(s, 1), rest |-> SubSeq(s, 3, Len(s)), err |-> FALSE]

\* atoi of package time on the two bytes of a zone hour or minute: two
\* digits, or a sign and one digit.
TimeAtoi(p) ==
    IF AllDigits(p) THEN [n |-> Num2(p, 1), err |-> FALSE]
    ELSE IF SubSeq(p, 1, 1) \in {"+", "-"} /\ IsDigit(SubSeq(p, 2, 2))
         THEN [n |-> (IF SubSeq(p, 1, 1) = "-" THEN -1 ELSE 1) * DigitVal(SubSeq(p, 2, 2)),
               err |-> FALSE]
    ELSE [n |-> 0, err |-> TRUE]

\* The zone of a time formatted with "Z07:00": Z for a zero offset, else the
\* sign, the hours and the minutes of the offset.
ZoneText(offset) ==
    LET mins == (IF offset < 0 THEN 0 - offset ELSE offset) \div 60
    IN  IF offset = 0 THEN "Z"
        ELSE (IF offset < 0 THEN "-" ELSE "+")
             \o (IF mins \div 60 < 100 THEN Pad2(mins \div 60) ELSE NatText(mins \div 60))
             \o ":" \o Pad2(mins % 60)

\* time.Parse(time.RFC3339, s) as package time of the Go release named in
\* go.mod parses it, element by element of the layout: the year of four
\* digits, "-", the month and "-", the day of two digits, "T", the hour of
\* one or two digits, ":", the minute, ":", the second, a fraction of a
\* second if the value has one, and "Z" or a zone offset "+07:00" or
\* "-07:00"; then the day is checked against the month.  It gives the
\* instant in Unix seconds (for the years that fit the model's integers),
\* the text the instant is formatted back to with time.RFC3339, and the
\* text of the error, NoErr when there is none.
ParseRFC3339(s) ==
    LET Fail(msg) == [t |-> 0, text |-> "", err |-> msg]
        Drop1(v) == SubSeq(v, 2, Len(v))
        Starts(v, c) == Len(v) >= 1 /\ SubSeq(v, 1, 1) = c
        v1   == SubSeq(s, 5, Len(s))
        year == Num2(s, 1) * 100 + Num2(s, 3)
        mo   == getnum(Drop1(v1), TRUE)
        d    == getnum(Drop1(mo.rest), TRUE)
        h    == getnum(Drop1(d.rest), FALSE)
        mi   == getnum(Drop1(h.rest), TRUE)
        sec  == getnum(Drop1(mi.rest), TRUE)
        \* the fraction of a second that follows the seconds, if any
        hasFrac == /\ Len(sec.rest) >= 2 /\ SubSeq(sec.rest, 1, 1) = "."
                   /\ IsDigit(SubSeq(sec.rest, 2, 2))
        fracEnd == IF \E k \in 2..Len(sec.rest) : ~IsDigit(SubSeq(sec.rest, k, k))
                   THEN (CHOOSE k \in 2..Len(sec.rest) :
                            /\ ~IsDigit(SubSeq(sec.rest, k, k))
                            /\ \A j \in 2..(k - 1) : IsDigit(SubSeq(sec.rest, j, j))) - 1
                   ELSE Len(sec.rest)
        frac    == MagnitudeFrom(SubSeq(sec.rest, 2, fracEnd), 1, WZero(IntLimbs), FALSE)
        fracBad == frac.over \/ WIsNeg(frac.word)
        \* 1e9 <= ns, 1e9 being 15258 * 2^16 + 51712
        fracBig == \/ frac.word[4] # 0 \/ frac.word[3] # 0
                   \/ frac.word[2] > 15258
                   \/ frac.word[2] = 15258 /\ frac.word[1] >= 51712
        v7   == IF hasFrac THEN SubSeq(sec.rest, fracEnd + 1, Len(sec.rest)) ELSE sec.rest
        \* the zone
        isZ  == Starts(v7, "Z")
        zh   == TimeAtoi(SubSeq(v7, 2, 3))
        zm   == TimeAtoi(SubSeq(v7, 5, 6))
        v8   == IF isZ THEN Drop1(v7) ELSE SubSeq(v7, 7, Len(v7))
        offs == IF isZ THEN 0
                ELSE (IF SubSeq(v7, 1, 1) = "-" THEN -1 ELSE 1)
                     * ((zh.n * 60 + zm.n) * 60)
        dayOK == /\ d.n >= 1
                 /\ CivilFromDays(DaysFromCivil(year, mo.n, d.n))
                        = [year |-> year, month |-> mo.n, day |-> d.n]
    IN  IF ~(Len(s) >= 4 /\ IsDigit(SubSeq(s, 1, 1))) THEN Fail(ParseErr(s, "2006", s))
        ELSE IF ~AllDigits(SubSeq(s, 1, 4)) THEN Fail(ParseErr(s, "2006", v1))
        ELSE IF ~Starts(v1, "-") THEN Fail(ParseErr(s, "-", v1))
        ELSE IF mo.n <= 0 \/ 12 < mo.n THEN Fail(RangeErr(s, ": month out of range"))
        ELSE IF ~Starts(mo.rest, "-") THEN Fail(ParseErr(s, "-", mo.rest))
        ELSE IF d.err THEN Fail(ParseErr(s, "02", d.rest))
        ELSE IF ~Starts(d.rest, "T") THEN Fail(ParseErr(s, "T", d.rest))
        ELSE IF 24 <= h.n THEN Fail(RangeErr(s, ": hour out of range"))
        ELSE IF h.err THEN Fail(ParseErr(s, "15", h.rest))
        ELSE IF ~Starts(h.rest, ":") THEN Fail(ParseErr(s, ":", h.rest))
        ELSE IF 60 <= mi.n THEN Fail(RangeErr(s, ": minute out of range"))
        ELSE IF mi.err THEN Fail(ParseErr(s, "04", mi.rest))
        ELSE IF ~Starts(mi.rest, ":") THEN Fail(ParseErr(s, ":", mi.rest))
        ELSE IF 60 <= sec.n THEN Fail(RangeErr(s, ": second out of range"))
        ELSE IF hasFrac /\ fracBad THEN Fail(ParseErr(s, "05", v7))
        ELSE IF hasFrac /\ fracBig
             THEN Fail(RangeErr(s, ": fractional second out of range"))
        ELSE IF ~hasFrac /\ sec.err THEN Fail(ParseErr(s, "05", sec.rest))
        ELSE IF ~isZ /\ (Len(v7) < 6 \/ SubSeq(v7, 4, 4) # ":")
             THEN Fail(ParseErr(s, "Z07:00", v7))
        ELSE IF ~isZ /\ (zh.err \/ zm.err \/ SubSeq(v7, 1, 1) \notin {"+", "-"})
             THEN Fail(ParseErr(s, "Z07:00", v8))
        ELSE IF Len(v8) # 0 THEN Fail(RangeErr(s, ": extra text: " \o v8))
        ELSE IF ~dayOK THEN Fail(RangeErr(s, ": day out of range"))
        ELSE [t |-> DaysFromCivil(year, mo.n, d.n) * 86400
                    + h.n * 3600 + mi.n * 60 + sec.n - offs,
              text |-> Pad4(year) \o "-" \o Pad2(mo.n) \o "-" \o Pad2(d.n) \o "T"
                       \o Pad2(h.n) \o ":" \o Pad2(mi.n) \o ":" \o Pad2(sec.n)
                       \o ZoneText(offs),
              err |-> NoErr]

(***************************************************************************)
(* The read command (cmd/read.go).                                         *)
(***************************************************************************)
\* time.Second, time.Minute and time.Hour in nanoseconds, as factors.
Second == << 1000, 1000, 1000 >>
Minute == << 60 >> \o Second
Hour == << 60, 60 >> \o Second

\* The errors of the read command.
ErrNoBucket == "An S3 bucket name must be provided"
ErrUnrecognized == "Unrecognized content type: "
ErrStart == "Invalid start date time: "
ErrWindow == "Cannot parse time window length"
ErrInvalidWindow == "Invalid time window: "

\* parseTimeWindow: the duration in nanoseconds and the error.
parseTimeWindow(wstr) ==
    LET l    == Len(wstr)
        a    == Atoi(SubSeq(wstr, 1, l - 1))
        unit == SubSeq(wstr, l, l)
    IN  IF l > 1 /\ ~a.err /\ unit \in {"d", "h", "m", "s"}
        THEN [d |-> CASE unit = "d" -> WMulAll(WMul(a.i, 24), Hour)
                      [] unit = "h" -> WMulAll(a.i, Hour)
                      [] unit = "m" -> WMulAll(a.i, Minute)
                      [] OTHER -> WMulAll(a.i, Second),
              err |-> NoErr]
        ELSE [d |-> WZero(IntLimbs), err |-> ErrWindow]

\* validateContentType: the content type and whether the string names one.
validateContentType(cstr) ==
    CASE cstr = "basic" -> [content |-> BASIC, err |-> FALSE]
      [] cstr = "requestid" -> [content |-> REQUESTID, err |-> FALSE]
      [] cstr = "bucket" -> [content |-> BUCKET, err |-> FALSE]
      [] cstr = "rich" -> [content |-> RICH, err |-> FALSE]
      [] cstr = "raw" -> [content |-> RAW, err |-> FALSE]
      [] OTHER -> [content |-> BASIC, err |-> TRUE]

\* The values given to --window, --start and --content, and the one bucket
\* argument.
WindowStrs ==
    { "1h", "7d", "12d", "12h", "25m", "95s", "0s", "-1h", "+2s", "-3s",
      "blargle", "", "s", "5", "-s", "1.5h", "5x", "5 s",
      "36028797018963967s", "36028797018963969s", "9007199254740991m",
      "2251799813685247h", "281474976710655d", "9223372036854775808s" }
StartStrs ==
    { "2020-03-20T13:59:59Z", "2020-03-20T22:00:00+08:00",
      "2020-01-01T00:00:00-00:00", "blargle" }
ContentStrs == {"basic", "raw", "cheese"}
LogBucket == "my-bucket"

(***************************************************************************)
(* State.                                                                  *)
(***************************************************************************)
VARIABLES
    \* SlogSession; a handle is the number of the NewSession call that made
    \* it, 0 is nil.
    awsSession, s3, SourceBuckets, StartDateTime, EndDateTime, Content,
    \* the keys of the objects in the log bucket
    store,
    \* number of direct activateSession calls, number of handles constructed,
    \* what the latest call of activateSession returned
    calls, newSessions, actErr,
    \* DisplayLog: its position and its return value
    pcO, result,
    \* keyChan, dataChan and doneChan; errChan is unbuffered, a send on it
    \* is a worker waiting at "sendErr"
    keyChan, keyClosed, dataChan, dataClosed, doneClosed,
    \* fetchLogObjectKeys: position, the locals startAfter and endAfter,
    \* current page, whether it is the last, index of the current entry,
    \* continuation cursor
    pcK, startAfter, endAfter, page, lastPage, idx, cursor,
    \* fetchLogObjectData: position, key being downloaded, buffer obtained
    pcF, fKey, fBuf,
    \* displayLogData: position, buffer being rendered, number of the lines
    \* of it handled so far
    pcR, rBuf, rLine,
    \* standard output
    output,
    \* history: listing entries the callback has dealt with, keys sent on
    \* keyChan, listing requests issued, number of the
    \* failed listing request (0: none), early exit taken, keys whose
    \* download was requested, key whose download failed ("": none), keys of
    \* the buffers rendered, whether something was printed after DisplayLog
    \* returned
    examined, emitted, listCalls, listFailed, stopped, downloads, failedKey,
    rendered, lateWrites,
    \* package cmd: the --window flag value, the duration parsed from it,
    \* the error of the command, and whether the package runs under its unit
    \* tests
    windowStr, window, executeError, unitTesting

sessionVars == << awsSession, s3, SourceBuckets, StartDateTime, EndDateTime, Content, store >>
actVars == << calls, newSessions, actErr >>
chanVars == << keyChan, keyClosed, dataChan, dataClosed, doneClosed >>
kVars == << pcK, startAfter, endAfter, page, lastPage, idx, cursor, examined, emitted, listCalls, listFailed, stopped >>
fVars == << pcF, fKey, fBuf, downloads, failedKey >>
rVars == << pcR, rBuf, rLine, rendered >>
outVars == << output, lateWrites >>
cmdVars == << windowStr, window, executeError, unitTesting >>
vars == << sessionVars, actVars, pcO, result, chanVars, kVars, fVars, rVars, outVars, cmdVars >>

\* A nil slice, and the slices a caller passes as SourceBuckets.
NilSlice == [isNil |-> TRUE, items |-> << >>]
EmptySlice == [isNil |-> FALSE, items |-> << >>]

Contents == {BASIC, REQUESTID, BUCKET, RICH, RAW, BadContent}

\* Every field and variable but SourceBuckets, before the first call.
InitRest ==
    /\ awsSession = 0 /\ s3 = 0
    /\ StartDateTime \in Times
    /\ EndDateTime \in Times
    /\ Content \in Contents
    /\ store \in Stores
    /\ calls = 0 /\ newSessions = 0 /\ actErr = "none"
    /\ pcO = "start" /\ result = "none"
    /\ keyChan = << >> /\ keyClosed = FALSE
    /\ dataChan = << >> /\ dataClosed = FALSE /\ doneClosed = FALSE
    /\ pcK = "idle" /\ startAfter = "" /\ endAfter = "" /\ page = << >> /\ lastPage = FALSE /\ idx = 1 /\ cursor = ""
    /\ pcF = "idle" /\ fKey = "" /\ fBuf = ""
    /\ pcR = "idle" /\ rBuf = [key |-> "", bytes |-> ""] /\ rLine = 0
    /\ output = ""
    /\ examined = << >> /\ emitted = << >> /\ listCalls = 0 /\ listFailed = 0 /\ stopped = FALSE
    /\ downloads = << >> /\ failedKey = "" /\ rendered = << >>
    /\ lateWrites = FALSE
    /\ windowStr = "" /\ window = WZero(IntLimbs) /\ executeError = NoErr
    /\ unitTesting = FALSE

\* The SourceBuckets of a session with a filter: the serving bucket of
\* LineA, or a name no record of the store carries.
FilterSlices == { [isNil |-> FALSE, items |-> << n >>] : n \in {"b1", "zz"} }

\* A new session without filter, and everything else before the first call.
Init ==
    /\ SourceBuckets \in {NilSlice, EmptySlice}
    /\ InitRest

\* A new session with or without filter whose window opens before the first
\* object of the store.
InitFilter ==
    /\ SourceBuckets \in {EmptySlice} \cup FilterSlices
    /\ InitRest
    /\ StartDateTime = TestEndUnix - 1

(***************************************************************************)
(* activateSession                                                         *)
(***************************************************************************)
\* activateSession without the early return on a session that has a client.
activateSession_NoEarlyReturn(sess, made, out, ok) ==
    IF ~ok
    THEN [sess |-> sess, made |-> made,
          out |-> out \o "Error creating session:  " \o ErrNewSession \o "\n",
          err |-> ErrNewSession]
    ELSE [sess |-> [awsSession |-> made + 1, s3 |-> made + 1,
                    SourceBuckets |-> IF sess.SourceBuckets.isNil
                                      THEN EmptySlice ELSE sess.SourceBuckets],
          made |-> made + 1, out |-> out, err |-> NoErr]

\* The session fields, the handle count and the output after one call of
\* activateSession in which session.NewSession succeeds (ok) or fails.
activateSession(sess, made, out, ok) ==
    IF sess.s3 # 0
    THEN [sess |-> sess, made |-> made, out |-> out, err |-> NoErr]
    ELSE IF ~ok
    THEN [sess |-> sess, made |-> made,
          out |-> out \o "Error creating session:  " \o ErrNewSession \o "\n",
          err |-> ErrNewSession]
    ELSE [sess |-> [awsSession |-> made + 1, s3 |-> made + 1,
                    SourceBuckets |-> IF sess.SourceBuckets.isNil
                                      THEN EmptySlice ELSE sess.SourceBuckets],
          made |-> made + 1, out |-> out, err |-> NoErr]

\* A run-time panic in a goroutine ends the process: no goroutine takes a
\* step after it.
Running == pcR # "panic"

slogSession == [awsSession |-> awsSession, s3 |-> s3, SourceBuckets |-> SourceBuckets]

\* An activation that replaces a nil SourceBuckets before it requests the
\* AWS session.
Activate_SlicesFirst ==
    /\ pcO = "start"
    /\ calls < MaxActivations
    /\ \E ok \in BOOLEAN :
         LET r == activateSession(slogSession, newSessions, output, ok)
         IN  /\ awsSession' = r.sess.awsSession
             /\ s3' = r.sess.s3
             /\ SourceBuckets' = IF s3 = 0 /\ SourceBuckets.isNil
                                 THEN EmptySlice ELSE r.sess.SourceBuckets
             /\ newSessions' = r.made
             /\ actErr' = r.err
             /\ output' = r.out
    /\ calls' = calls + 1
    /\ UNCHANGED << cmdVars, StartDateTime, EndDateTime, Content, store, pcO, result,
                    chanVars, kVars, fVars, rVars, lateWrites >>

\* A caller (as the package tests do) activates the session directly.
Activate ==
    /\ pcO = "start"
    /\ calls < MaxActivations
    /\ \E ok \in BOOLEAN :
         LET r == activateSession(slogSession, newSessions, output, ok)
         IN  /\ awsSession' = r.sess.awsSession
             /\ s3' = r.sess.s3
             /\ SourceBuckets' = r.sess.SourceBuckets
             /\ newSessions' = r.made
             /\ actErr' = r.err
             /\ output' = r.out
    /\ calls' = calls + 1
    /\ UNCHANGED << cmdVars, StartDateTime, EndDateTime, Content, store, pcO, result,
                    chanVars, kVars, fVars, rVars, lateWrites >>

(***************************************************************************)
(* DisplayLog                                                              *)
(***************************************************************************)
\* DisplayLog going on to launch the workers whatever activateSession returned.
DisplayLogStart_IgnoresError ==
    /\ pcO = "start"
    /\ \E ok \in BOOLEAN :
         LET r == activateSession(slogSession, newSessions, output, ok)
         IN  /\ awsSession' = r.sess.awsSession
             /\ s3' = r.sess.s3
             /\ SourceBuckets' = r.sess.SourceBuckets
             /\ newSessions' = r.made
             /\ actErr' = r.err
             /\ output' = r.out
             /\ pcO' = "select" /\ result' = result
             /\ pcK' = "begin" /\ pcF' = "recv" /\ pcR' = "recv"
    /\ UNCHANGED << cmdVars, StartDateTime, EndDateTime, Content, store, calls, chanVars,
                    startAfter, endAfter, page, lastPage, idx, cursor, examined,
                    emitted, listCalls, listFailed,
                    stopped, fKey, fBuf, downloads, failedKey, rBuf, rLine, rendered,
                    lateWrites >>

\* Activation, then creation of the channels and launch of the three workers.
DisplayLogStart ==
    /\ pcO = "start"
    /\ \E ok \in BOOLEAN :
         LET r == activateSession(slogSession, newSessions, output, ok)
         IN  /\ awsSession' = r.sess.awsSession
             /\ s3' = r.sess.s3
             /\ SourceBuckets' = r.sess.SourceBuckets
             /\ newSessions' = r.made
             /\ actErr' = r.err
             /\ output' = r.out
             /\ IF r.err # NoErr
                THEN /\ pcO' = "returned" /\ result' = r.err
                     /\ UNCHANGED << pcK, pcF, pcR >>
                ELSE /\ pcO' = "select" /\ result' = result
                     /\ pcK' = "begin" /\ pcF' = "recv" /\ pcR' = "recv"
    /\ UNCHANGED << cmdVars, StartDateTime, EndDateTime, Content, store, calls, chanVars,
                    startAfter, endAfter, page, lastPage, idx, cursor, examined,
                    emitted, listCalls, listFailed,
                    stopped, fKey, fBuf, downloads, failedKey, rBuf, rLine, rendered,
                    lateWrites >>

\* A select that takes the doneChan case without waiting for the close.
SelectDone_NoWait ==
    /\ Running
    /\ pcO = "select"
    /\ pcO' = "returned" /\ result' = NoErr
    /\ UNCHANGED << cmdVars, sessionVars, actVars, chanVars, kVars, fVars, rVars, outVars >>

\* select: case <-doneChan
SelectDone ==
    /\ Running
    /\ pcO = "select"
    /\ doneClosed
    /\ pcO' = "returned" /\ result' = NoErr
    /\ UNCHANGED << cmdVars, sessionVars, actVars, chanVars, kVars, fVars, rVars, outVars >>

\* An enumerator that requests the page again once its error has been taken.
SelectErrKeys_Retry ==
    /\ Running
    /\ pcO = "select"
    /\ pcK = "sendErr"
    /\ pcO' = "returned" /\ result' = ErrList
    /\ pcK' = "list"
    /\ UNCHANGED << cmdVars, sessionVars, actVars, chanVars, startAfter, endAfter, page,
                    lastPage, idx, cursor, examined, emitted, listCalls, listFailed, stopped, fVars, rVars, outVars >>

\* select: case err := <-errChan, meeting the send of the enumerator
SelectErrKeys ==
    /\ Running
    /\ pcO = "select"
    /\ pcK = "sendErr"
    /\ pcO' = "returned" /\ result' = ErrList
    /\ pcK' = "close"
    /\ UNCHANGED << cmdVars, sessionVars, actVars, chanVars, startAfter, endAfter, page,
                    lastPage, idx, cursor, examined, emitted, listCalls, listFailed, stopped, fVars, rVars, outVars >>

\* The fetcher going back to its range loop after the error send (no break).
SelectErrData_NoBreak ==
    /\ Running
    /\ pcO = "select"
    /\ pcF = "sendErr"
    /\ pcO' = "returned" /\ result' = ErrDownload
    /\ pcF' = "recv"
    /\ UNCHANGED << cmdVars, sessionVars, actVars, chanVars, kVars, fKey, fBuf, downloads,
                    failedKey, rVars, outVars >>

\* select: case err := <-errChan, meeting the send of the fetcher
SelectErrData ==
    /\ Running
    /\ pcO = "select"
    /\ pcF = "sendErr"
    /\ pcO' = "returned" /\ result' = ErrDownload
    /\ pcF' = "close"
    /\ UNCHANGED << cmdVars, sessionVars, actVars, chanVars, kVars, fKey, fBuf, downloads,
                    failedKey, rVars, outVars >>

\* An orchestrator that goes on receiving from errChan after it has a result.
SelectErrDisplay_Again ==
    /\ pcO \in {"select", "returned"}
    /\ pcR = "sendErr"
    /\ pcO' = "returned" /\ result' = ErrContent(Content)
    /\ pcR' = "done"
    /\ UNCHANGED << cmdVars, sessionVars, actVars, chanVars, kVars, fVars, rBuf, rLine, rendered,
                    outVars >>

\* select: case err := <-errChan, meeting the send of the renderer, which
\* then returns without closing doneChan
SelectErrDisplay ==
    /\ pcO = "select"
    /\ pcR = "sendErr"
    /\ pcO' = "returned" /\ result' = ErrContent(Content)
    /\ pcR' = "done"
    /\ UNCHANGED << cmdVars, sessionVars, actVars, chanVars, kVars, fVars, rBuf, rLine, rendered,
                    outVars >>

(***************************************************************************)
(* fetchLogObjectKeys                                                      *)
(***************************************************************************)
\* Where the enumerator stands once entry i of the page is the next to look
\* at: in the range loop, or past it with the callback returning !lastPage.
\* The callback returning false at the end of every page.
AfterEntry_OnePage(i, contents, last) ==
    IF i <= Len(contents) THEN "loop" ELSE "close"

AfterEntry(i, contents, last) ==
    IF i <= Len(contents) THEN "loop"
    ELSE IF last THEN "close" ELSE "list"

\* An enumerator that returns once its cursor strings are formed, without
\* listing and without closing keyChan.
BeginKeys_Returns ==
    /\ Running
    /\ pcK = "begin"
    /\ startAfter' = startAfterKey(Folder, StartDateTime)
    /\ endAfter' = endAfterKey(Folder, EndDateTime)
    /\ cursor' = startAfterKey(Folder, StartDateTime)
    /\ pcK' = "done"
    /\ UNCHANGED << cmdVars, sessionVars, actVars, pcO, result, chanVars, page, lastPage,
                    idx, examined, emitted, listCalls, listFailed, stopped, fVars,
                    rVars, outVars >>

\* The enumerator forms its two cursor strings and the listing input.
BeginKeys ==
    /\ Running
    /\ pcK = "begin"
    /\ startAfter' = startAfterKey(Folder, StartDateTime)
    /\ endAfter' = endAfterKey(Folder, EndDateTime)
    /\ cursor' = startAfterKey(Folder, StartDateTime)
    /\ pcK' = "list"
    /\ UNCHANGED << cmdVars, sessionVars, actVars, pcO, result, chanVars, page, lastPage,
                    idx, examined, emitted, listCalls, listFailed, stopped, fVars,
                    rVars, outVars >>

\* The enumerator dropping the error of ListObjectsV2Pages.
ListPage_DropsError ==
    /\ Running
    /\ pcK = "list"
    /\ listCalls' = listCalls + 1
    /\ \E ok \in BOOLEAN :
         IF ok
         THEN \E out \in { ListObjectsV2(store, Folder \o "/", cursor, maxListKeys) } :
                  /\ page' = out.Contents
                  /\ lastPage' = ~out.IsTruncated
                  /\ idx' = 1
                  /\ cursor' = IF Len(out.Contents) = 0 THEN cursor
                               ELSE out.Contents[Len(out.Contents)]
                  /\ pcK' = AfterEntry(1, out.Contents, ~out.IsTruncated)
                  /\ listFailed' = listFailed
         ELSE /\ pcK' = "close"
              /\ listFailed' = listCalls + 1
              /\ UNCHANGED << page, lastPage, idx, cursor >>
    /\ UNCHANGED << cmdVars, sessionVars, actVars, pcO, result, chanVars, startAfter,
                    endAfter, examined, emitted, stopped, fVars, rVars, outVars >>

\* ListObjectsV2Pages requests the next page; the request succeeds and the
\* callback is entered with the page, or it fails and the call returns err.
ListPage ==
    /\ Running
    /\ pcK = "list"
    /\ listCalls' = listCalls + 1
    /\ \E ok \in BOOLEAN :
         IF ok
         THEN \E out \in { ListObjectsV2(store, Folder \o "/", cursor, maxListKeys) } :
                  /\ page' = out.Contents
                  /\ lastPage' = ~out.IsTruncated
                  /\ idx' = 1
                  /\ cursor' = IF Len(out.Contents) = 0 THEN cursor
                               ELSE out.Contents[Len(out.Contents)]
                  /\ pcK' = AfterEntry(1, out.Contents, ~out.IsTruncated)
                  /\ listFailed' = listFailed
         ELSE /\ pcK' = "sendErr"
              /\ listFailed' = listCalls + 1
              /\ UNCHANGED << page, lastPage, idx, cursor >>
    /\ UNCHANGED << cmdVars, sessionVars, actVars, pcO, result, chanVars, startAfter,
                    endAfter, examined, emitted, stopped, fVars, rVars, outVars >>

\* The callback going on to the next entry after a key beyond endAfter.
Examine_PagesOn ==
    /\ Running
    /\ pcK = "loop"
    /\ KeyAction(page[idx], Folder, endAfter) # "emit"
    /\ pcK' = AfterEntry(idx + 1, page, lastPage)
    /\ idx' = idx + 1
    /\ stopped' = (stopped \/ KeyAction(page[idx], Folder, endAfter) = "stop")
    /\ examined' = Append(examined, page[idx])
    /\ UNCHANGED << cmdVars, sessionVars, actVars, pcO, result, chanVars, startAfter,
                    endAfter, page, lastPage, cursor, emitted, listCalls,
                    listFailed, fVars, rVars, outVars >>

\* The callback meets an entry that it does not send: one it skips (nil key
\* or the folder itself), or one beyond endAfter, on which it returns false.
Examine ==
    /\ Running
    /\ pcK = "loop"
    /\ LET act == KeyAction(page[idx], Folder, endAfter)
       IN  /\ act # "emit"
           /\ pcK' = IF act = "stop" THEN "close"
                     ELSE AfterEntry(idx + 1, page, lastPage)
           /\ idx' = IF act = "stop" THEN idx ELSE idx + 1
           /\ stopped' = (act = "stop")
    /\ examined' = Append(examined, page[idx])
    /\ UNCHANGED << cmdVars, sessionVars, actVars, pcO, result, chanVars, startAfter,
                    endAfter, page, lastPage, cursor, emitted, listCalls,
                    listFailed, fVars, rVars, outVars >>

\* A send on keyChan that does not wait for room.
SendKey_NoWait ==
    /\ Running
    /\ pcK = "loop"
    /\ KeyAction(page[idx], Folder, endAfter) = "emit"
    /\ keyChan' = Append(keyChan, page[idx])
    /\ examined' = Append(examined, page[idx])
    /\ emitted' = Append(emitted, page[idx])
    /\ idx' = idx + 1
    /\ pcK' = AfterEntry(idx + 1, page, lastPage)
    /\ UNCHANGED << cmdVars, sessionVars, actVars, pcO, result, keyClosed, dataChan,
                    dataClosed, doneClosed, startAfter, endAfter, page, lastPage,
                    cursor, listCalls, listFailed, stopped, fVars, rVars, outVars >>

\* The callback meets an entry within the window: keyChan <- *key, which
\* waits while the channel is full
SendKey ==
    /\ Running
    /\ pcK = "loop"
    /\ KeyAction(page[idx], Folder, endAfter) = "emit"
    /\ Len(keyChan) < KeyChanCap
    /\ keyChan' = Append(keyChan, page[idx])
    /\ examined' = Append(examined, page[idx])
    /\ emitted' = Append(emitted, page[idx])
    /\ idx' = idx + 1
    /\ pcK' = AfterEntry(idx + 1, page, lastPage)
    /\ UNCHANGED << cmdVars, sessionVars, actVars, pcO, result, keyClosed, dataChan,
                    dataClosed, doneClosed, startAfter, endAfter, page, lastPage,
                    cursor, listCalls, listFailed, stopped, fVars, rVars, outVars >>

\* An enumerator that closes keyChan before it sends the listing error.
CloseKeys_BeforeReport ==
    /\ Running
    /\ pcK \in {"close", "sendErr"}
    /\ ~keyClosed
    /\ keyClosed' = TRUE
    /\ pcK' = IF pcK = "sendErr" THEN "sendErr" ELSE "done"
    /\ UNCHANGED << cmdVars, sessionVars, actVars, pcO, result, keyChan, dataChan,
                    dataClosed, doneClosed, startAfter, endAfter, page, lastPage,
                    idx, cursor, examined, emitted, listCalls, listFailed, stopped, fVars,
                    rVars, outVars >>

\* close(keyChan)
CloseKeys ==
    /\ Running
    /\ pcK = "close"
    /\ keyClosed' = TRUE
    /\ pcK' = "done"
    /\ UNCHANGED << cmdVars, sessionVars, actVars, pcO, result, keyChan, dataChan,
                    dataClosed, doneClosed, startAfter, endAfter, page, lastPage,
                    idx, cursor, examined, emitted, listCalls, listFailed, stopped, fVars,
                    rVars, outVars >>

(***************************************************************************)
(* fetchLogObjectData                                                      *)
(***************************************************************************)
\* A fetcher whose receive does not wait: finding keyChan empty and still
\* open it leaves the loop.
RecvKey_GivesUp ==
    /\ Running
    /\ pcF = "recv"
    /\ IF Len(keyChan) > 0
       THEN /\ fKey' = Head(keyChan)
            /\ keyChan' = Tail(keyChan)
            /\ pcF' = "download"
       ELSE /\ ~keyClosed
            /\ pcF' = "close"
            /\ UNCHANGED << fKey, keyChan >>
    /\ UNCHANGED << cmdVars, sessionVars, actVars, pcO, result, keyClosed, dataChan,
                    dataClosed, doneClosed, kVars, fBuf, downloads, failedKey,
                    rVars, outVars >>

\* for key := range keyChan: a key is received
RecvKey ==
    /\ Running
    /\ pcF = "recv"
    /\ Len(keyChan) > 0
    /\ fKey' = Head(keyChan)
    /\ keyChan' = Tail(keyChan)
    /\ pcF' = "download"
    /\ UNCHANGED << cmdVars, sessionVars, actVars, pcO, result, keyClosed, dataChan,
                    dataClosed, doneClosed, kVars, fBuf, downloads, failedKey,
                    rVars, outVars >>

\* The fetcher leaving its loop on a failed download without sending the error.
Download_DropsError ==
    /\ Running
    /\ pcF = "download"
    /\ downloads' = Append(downloads, fKey)
    /\ \E ok \in BOOLEAN :
         IF ok
         THEN /\ fBuf' = ObjectBody(fKey)
              /\ pcF' = "send"
              /\ failedKey' = failedKey
         ELSE /\ pcF' = "close"
              /\ failedKey' = fKey
              /\ fBuf' = fBuf
    /\ UNCHANGED << cmdVars, sessionVars, actVars, pcO, result, chanVars, kVars, fKey,
                    rVars, outVars >>

\* downloader.Download: the object is read into a buffer, or the call fails
Download ==
    /\ Running
    /\ pcF = "download"
    /\ downloads' = Append(downloads, fKey)
    /\ \E ok \in BOOLEAN :
         IF ok
         THEN /\ fBuf' = ObjectBody(fKey)
              /\ pcF' = "send"
              /\ failedKey' = failedKey
         ELSE /\ pcF' = "sendErr"
              /\ failedKey' = fKey
              /\ fBuf' = fBuf
    /\ UNCHANGED << cmdVars, sessionVars, actVars, pcO, result, chanVars, kVars, fKey,
                    rVars, outVars >>

\* A fetcher that closes dataChan inside its loop, after each send.
SendData_ClosesToo ==
    /\ Running
    /\ pcF = "send"
    /\ Len(dataChan) < DataChanCap
    /\ dataChan' = Append(dataChan, [key |-> fKey, bytes |-> fBuf])
    /\ dataClosed' = TRUE
    /\ pcF' = "recv"
    /\ UNCHANGED << cmdVars, sessionVars, actVars, pcO, result, keyChan, keyClosed,
                    doneClosed, kVars, fKey, fBuf, downloads,
                    failedKey, rVars, outVars >>

\* dataChan <- awsBuff, which waits while the channel is full
SendData ==
    /\ Running
    /\ pcF = "send"
    /\ Len(dataChan) < DataChanCap
    /\ dataChan' = Append(dataChan, [key |-> fKey, bytes |-> fBuf])
    /\ pcF' = "recv"
    /\ UNCHANGED << cmdVars, sessionVars, actVars, pcO, result, keyChan, keyClosed,
                    dataClosed, doneClosed, kVars, fKey, fBuf, downloads,
                    failedKey, rVars, outVars >>

\* The fetcher returning without closing dataChan.
CloseData_LeavesOpen ==
    /\ Running
    /\ \/ pcF = "recv" /\ Len(keyChan) = 0 /\ keyClosed
       \/ pcF = "close"
    /\ dataClosed' = dataClosed
    /\ pcF' = "done"
    /\ UNCHANGED << cmdVars, sessionVars, actVars, pcO, result, keyChan, keyClosed,
                    dataChan, doneClosed, kVars, fKey, fBuf, downloads, failedKey,
                    rVars, outVars >>

\* close(dataChan), after the range loop ended on a closed and drained
\* keyChan or after the break that follows the error send
CloseData ==
    /\ Running
    /\ \/ pcF = "recv" /\ Len(keyChan) = 0 /\ keyClosed
       \/ pcF = "close"
    /\ dataClosed' = TRUE
    /\ pcF' = "done"
    /\ UNCHANGED << cmdVars, sessionVars, actVars, pcO, result, keyChan, keyClosed,
                    dataChan, doneClosed, kVars, fKey, fBuf, downloads, failedKey,
                    rVars, outVars >>

(***************************************************************************)
(* displayLogData                                                          *)
(***************************************************************************)
\* The renderer taking the newest buffer of dataChan instead of the oldest.
RecvData_Newest ==
    /\ pcR = "recv"
    /\ Len(dataChan) > 0
    /\ rBuf' = dataChan[Len(dataChan)] /\ rLine' = 0
    /\ dataChan' = SubSeq(dataChan, 1, Len(dataChan) - 1)
    /\ pcR' = "render"
    /\ UNCHANGED << cmdVars, sessionVars, actVars, pcO, result, keyChan, keyClosed,
                    dataClosed, doneClosed, kVars, fVars, rendered, outVars >>

\* for awsBuff := range dataChan: a buffer is received
RecvData ==
    /\ pcR = "recv"
    /\ Len(dataChan) > 0
    /\ rBuf' = Head(dataChan) /\ rLine' = 0
    /\ dataChan' = Tail(dataChan)
    /\ pcR' = "render"
    /\ UNCHANGED << cmdVars, sessionVars, actVars, pcO, result, keyChan, keyClosed,
                    dataClosed, doneClosed, kVars, fVars, rendered, outVars >>

\* displayLogData printing a raw buffer with Println instead of Print.
displayBuffer_RawPrintln(content, bytes) ==
    LET r == IF content = RAW THEN [writes |-> << bytes \o "\n" >>, err |-> NoErr]
             ELSE displaySelectLogData(content, bytes)
    IN  [writes |-> r.writes, err |-> r.err, out |-> Join(r.writes, "")]

\* What displayLogData does with one buffer: the texts written, one for the
\* fmt.Print of a raw buffer and one for each fmt.Println of
\* displaySelectLogData, the error, and the whole text printed.
displayBuffer(content, bytes) ==
    LET r == IF content = RAW THEN [writes |-> << bytes >>, err |-> NoErr]
             ELSE displaySelectLogData(content, bytes)
    IN  [writes |-> r.writes, err |-> r.err, out |-> Join(r.writes, "")]

\* The bodies of the objects of the store.
Bodies == { ObjectBody(LogKey(Folder, TestEndUnix, sfx)) : sfx \in Suffixes }

\* An access-log record with the given serving bucket, request id and user
\* agent; LineA is MakeLine("b1", "q1", "U a").
MakeLine(bucket, requestID, agent) ==
    "o " \o bucket \o " [t +0] i r " \o requestID
    \o " G k \"G /k H\" 200 - 9 9 1 1 \"-\" \"" \o agent \o "\" - h s c a e T"

\* Bucket names and request ids of one to MaxFieldLen bytes, and user agents
\* of one to three words.
BucketNames == { SubSeq("bucket", 1, n) : n \in 1..MaxFieldLen }
RequestIDs == { SubSeq("79A59DF900B949E5", 1, n) : n \in 1..MaxFieldLen }
Agents == {"U", "U a", "U a b"}
Records == { MakeLine(b, q, a) : b \in BucketNames, q \in RequestIDs, a \in Agents }

\* Buffers of one record, and of one record followed by LineB.
RecordBodies ==
    { r \o "\n" : r \in Records } \cup { r \o "\n" \o LineB \o "\n" : r \in Records }

\* A line of three fields and a line of thirteen: too few for parts[2:5],
\* and enough for richContent but too few for parts[9:count-7].
ShortLine == "a b c"
Line13 == "o b1 [t +0] i r q1 G k - h s c"

\* The lines a generated buffer is made of, "" being a zero-length line.
LineKinds == {"", LineA, LineB, ShortLine, Line13}

\* Buffers of one to MaxLines lines with a line feed between them; a buffer
\* whose last line is "" ends with a line feed.
LineBuffers ==
    { Join(ls, "\n") : ls \in UNION { [1..n -> LineKinds] : n \in 1..MaxLines } }

\* displayBuffer for each content value and each body of the store, worked
\* out once.
storeTable ==
    { << c, b, displayBuffer(c, b) >> : c \in Contents, b \in Bodies }

\* displayBuffer for each content value and each generated buffer, worked
\* out once.
displayTable ==
    { << c, b, displayBuffer(c, b) >> : c \in Contents,
                                      b \in RecordBodies \cup LineBuffers }

displayed(content, bytes) ==
    (CHOOSE t \in (IF bytes \in Bodies THEN storeTable ELSE displayTable) :
         t[1] = content /\ t[2] = bytes)[3]

\* A renderer that prints a buffer only for a session without filter.
\* The lines of a buffer the renderer handles one after the other: those it
\* prints, and the one at which displaySelectLogData fails, if it does.
Handled(r) == Len(r.writes) + (IF r.err = NoErr THEN 0 ELSE 1)

\* A renderer that prints a buffer only for a session without filter.
Render_FilterFirst ==
    /\ pcR = "render"
    /\ \E r \in { displayed(Content, rBuf.bytes) } :
         LET text == IF rLine < Len(r.writes) THEN r.writes[rLine + 1] ELSE ""
             more == rLine + 1 < Handled(r)
         IN  /\ output' = output \o (IF Len(SourceBuckets.items) = 0 THEN text ELSE "")
             /\ lateWrites' = (lateWrites \/ (pcO = "returned" /\ text # ""))
             /\ rLine' = rLine + 1
             /\ pcR' = IF more THEN "render"
                       ELSE IF r.err = SlicePanic THEN "panic"
                       ELSE IF r.err # NoErr THEN "sendErr" ELSE "recv"
             /\ rendered' = IF more THEN rendered ELSE Append(rendered, rBuf.key)
    /\ UNCHANGED << cmdVars, sessionVars, actVars, pcO, result, chanVars, kVars, fVars, rBuf >>

\* One step of the renderer on its buffer: the fmt.Print of a raw buffer, or
\* displaySelectLogData up to its next fmt.Println, the zero-length lines on
\* the way being skipped, or up to its return when no line is left to print.
\* The buffer is rendered when displaySelectLogData has returned; a run-time
\* panic in it ends the process.
Render ==
    /\ pcR = "render"
    /\ \E r \in { displayed(Content, rBuf.bytes) } :
         LET text == IF rLine < Len(r.writes) THEN r.writes[rLine + 1] ELSE ""
             more == rLine + 1 < Handled(r)
         IN  /\ output' = output \o text
             /\ lateWrites' = (lateWrites \/ (pcO = "returned" /\ text # ""))
             /\ rLine' = rLine + 1
             /\ pcR' = IF more THEN "render"
                       ELSE IF r.err = SlicePanic THEN "panic"
                       ELSE IF r.err # NoErr THEN "sendErr" ELSE "recv"
             /\ rendered' = IF more THEN rendered ELSE Append(rendered, rBuf.key)
    /\ UNCHANGED << cmdVars, sessionVars, actVars, pcO, result, chanVars, kVars, fVars, rBuf >>

\* The renderer closing doneChan without waiting for dataChan to be closed
\* and drained.
CloseDone_Early ==
    /\ pcR = "recv"
    /\ doneClosed' = TRUE
    /\ pcR' = "done"
    /\ UNCHANGED << cmdVars, sessionVars, actVars, pcO, result, keyChan, keyClosed,
                    dataChan, dataClosed, kVars, fVars, rBuf, rLine, rendered, outVars >>

\* close(doneChan), after the range loop ended on a closed and drained dataChan
CloseDone ==
    /\ pcR = "recv"
    /\ Len(dataChan) = 0 /\ dataClosed
    /\ doneClosed' = TRUE
    /\ pcR' = "done"
    /\ UNCHANGED << cmdVars, sessionVars, actVars, pcO, result, keyChan, keyClosed,
                    dataChan, dataClosed, kVars, fVars, rBuf, rLine, rendered, outVars >>

(***************************************************************************)
(* The read command: RunE of readCmd, and Execute.                         *)
(***************************************************************************)
\* PrepForExecute, before the command is run: resetCommand marks the package
\* as under unit test and clears the values of an earlier run; the arguments
\* it sets give the --window value of the run that follows.
PrepForExecute ==
    /\ pcO = "cmd"
    /\ unitTesting' = TRUE
    /\ \E wstr \in WindowStrs : windowStr' = wstr
    /\ window' = WZero(IntLimbs)
    /\ executeError' = NoErr
    /\ UNCHANGED << sessionVars, actVars, pcO, result, chanVars, kVars, fVars, rVars,
                    outVars >>

\* The command fails with err before a session is made: Execute prints the
\* error and exits, or returns when the package is under unit test.
Rejected(err) ==
    /\ executeError' = err
    /\ output' = output \o err \o "\n"
    /\ pcO' = IF unitTesting THEN "executed" ELSE "rejected"
    /\ UNCHANGED << awsSession, s3, SourceBuckets, StartDateTime, EndDateTime, Content >>

\* RunE up to the call of DisplayLog: the arguments and the flags are
\* checked and parsed, the SlogSession is populated and announced.  Under
\* unit test DisplayLog is not called: RunE returns nil and Execute returns.
ReadCmd ==
    /\ pcO = "cmd"
    /\ \E nargs \in 0..1, cstr \in ContentStrs, sstr \in StartStrs :
         LET c  == validateContentType(cstr)
             st == ParseRFC3339(sstr)
             w  == parseTimeWindow(windowStr)
         IN  IF nargs = 0 THEN Rejected(ErrNoBucket) /\ window' = window
             ELSE IF c.err THEN Rejected(ErrUnrecognized \o cstr) /\ window' = window
             ELSE IF st.err # NoErr THEN Rejected(ErrStart \o st.err) /\ window' = window
             ELSE IF w.err # NoErr
                  THEN Rejected(ErrInvalidWindow \o w.err) /\ window' = w.d
             ELSE /\ window' = w.d
                  /\ awsSession' = 0 /\ s3' = 0
                  /\ SourceBuckets' = EmptySlice
                  /\ StartDateTime' = st.t
                  /\ EndDateTime' = st.t + FloorSeconds(w.d)
                  /\ Content' = c.content
                  /\ output' = output \o "Reading logs from " \o LogBucket \o "/"
                                \o Folder \o " for with start=" \o st.text
                                \o ", window=" \o SecondsText(FloorSeconds(w.d))
                                \o " seconds\n"
                  /\ executeError' = IF unitTesting THEN NoErr ELSE executeError
                  /\ pcO' = IF unitTesting THEN "executed" ELSE "start"
    /\ UNCHANGED << store, actVars, result, chanVars, kVars, fVars, rVars,
                    lateWrites, windowStr, unitTesting >>

\* DisplayLog has returned: RunE returns its error, which Execute prints
\* before it exits.
ReadReturn ==
    /\ Running
    /\ pcO = "returned"
    /\ executeError' = result
    /\ output' = IF result = NoErr THEN output ELSE output \o result \o "\n"
    /\ pcO' = "exited"
    /\ UNCHANGED << sessionVars, actVars, result, chanVars, kVars, fVars, rVars,
                    lateWrites, windowStr, window, unitTesting >>

(***************************************************************************)
(* Specifications.                                                         *)
(***************************************************************************)
\* One call of DisplayLog on a new session.
Next ==
    \/ DisplayLogStart
    \/ SelectDone
    \/ SelectErrKeys
    \/ SelectErrData
    \/ SelectErrDisplay
    \/ BeginKeys
    \/ ListPage
    \/ Examine
    \/ SendKey
    \/ CloseKeys
    \/ RecvKey
    \/ Download
    \/ SendData
    \/ CloseData
    \/ RecvData
    \/ Render
    \/ CloseDone

Spec == Init /\ [][Next]_vars

\* The Go scheduler runs every goroutine that is able to take its next step.
FairSpec ==
    /\ Spec
    /\ WF_vars(DisplayLogStart \/ SelectDone \/ SelectErrKeys \/ SelectErrData
               \/ SelectErrDisplay)
    /\ WF_vars(BeginKeys \/ ListPage \/ Examine \/ SendKey \/ CloseKeys)
    /\ WF_vars(RecvKey \/ Download \/ SendData \/ CloseData)
    /\ WF_vars(RecvData \/ Render \/ CloseDone)

\* One call of DisplayLog on a new session that may carry a filter.
FilterSpec == InitFilter /\ [][Next]_vars

\* One call of DisplayLog on a new session whose window holds
\* 3 * LongSpan + 1 keys.
InitLong ==
    /\ awsSession = 0 /\ s3 = 0 /\ SourceBuckets = NilSlice
    /\ StartDateTime = TestEndUnix - 1
    /\ EndDateTime = TestEndUnix + LongSpan
    /\ Content \in {BASIC, RAW, BadContent}
    /\ store = StoreUpTo(TestEndUnix + LongSpan)
    /\ calls = 0 /\ newSessions = 0 /\ actErr = "none"
    /\ pcO = "start" /\ result = "none"
    /\ keyChan = << >> /\ keyClosed = FALSE
    /\ dataChan = << >> /\ dataClosed = FALSE /\ doneClosed = FALSE
    /\ pcK = "idle" /\ startAfter = "" /\ endAfter = "" /\ page = << >> /\ lastPage = FALSE /\ idx = 1 /\ cursor = ""
    /\ pcF = "idle" /\ fKey = "" /\ fBuf = ""
    /\ pcR = "idle" /\ rBuf = [key |-> "", bytes |-> ""] /\ rLine = 0
    /\ output = ""
    /\ examined = << >> /\ emitted = << >> /\ listCalls = 0 /\ listFailed = 0 /\ stopped = FALSE
    /\ downloads = << >> /\ failedKey = "" /\ rendered = << >>
    /\ lateWrites = FALSE
    /\ windowStr = "" /\ window = WZero(IntLimbs) /\ executeError = NoErr
    /\ unitTesting = FALSE

LongSpec == InitLong /\ [][Next]_vars

\* LongSpec under the scheduling of FairSpec.
FairLongSpec ==
    /\ LongSpec
    /\ WF_vars(DisplayLogStart \/ SelectDone \/ SelectErrKeys \/ SelectErrData
               \/ SelectErrDisplay)
    /\ WF_vars(BeginKeys \/ ListPage \/ Examine \/ SendKey \/ CloseKeys)
    /\ WF_vars(RecvKey \/ Download \/ SendData \/ CloseData)
    /\ WF_vars(RecvData \/ Render \/ CloseDone)

\* The renderer holds the buffer of the one object of the window, a
\* generated record body; the enumerator and the fetcher have finished.
InitRender ==
    /\ awsSession = 1 /\ s3 = 1 /\ SourceBuckets = EmptySlice
    /\ StartDateTime = TestEndUnix - 1 /\ EndDateTime = TestEndUnix
    /\ Content \in Contents
    /\ store = << LogKey(Folder, TestEndUnix, "") >>
    /\ calls = 0 /\ newSessions = 1 /\ actErr = NoErr
    /\ pcO = "select" /\ result = "none"
    /\ keyChan = << >> /\ keyClosed = TRUE
    /\ dataChan = << >> /\ dataClosed = TRUE /\ doneClosed = FALSE
    /\ pcK = "done" /\ startAfter = startAfterKey(Folder, TestEndUnix - 1)
    /\ endAfter = endAfterKey(Folder, TestEndUnix)
    /\ page = store /\ lastPage = TRUE /\ idx = 2 /\ cursor = store[1]
    /\ pcF = "done" /\ fKey = store[1] /\ fBuf \in RecordBodies
    /\ pcR = "render" /\ rBuf = [key |-> store[1], bytes |-> fBuf] /\ rLine = 0
    /\ output = ""
    /\ examined = store /\ emitted = store /\ listCalls = 1 /\ listFailed = 0
    /\ stopped = FALSE
    /\ downloads = store /\ failedKey = "" /\ rendered = << >>
    /\ lateWrites = FALSE
    /\ windowStr = "" /\ window = WZero(IntLimbs) /\ executeError = NoErr
    /\ unitTesting = FALSE

\* The rest of such a run: the buffer is rendered and DisplayLog returns.
NextRender ==
    \/ Render
    \/ CloseDone
    \/ SelectDone
    \/ SelectErrDisplay

RenderSpec == InitRender /\ [][NextRender]_vars

\* As InitRender, the buffer being any generated buffer: blank lines, records
\* and lines of too few fields, with or without a final line feed.
InitLines ==
    /\ awsSession = 1 /\ s3 = 1 /\ SourceBuckets = EmptySlice
    /\ StartDateTime = TestEndUnix - 1 /\ EndDateTime = TestEndUnix
    /\ Content \in Contents
    /\ store = << LogKey(Folder, TestEndUnix, "") >>
    /\ calls = 0 /\ newSessions = 1 /\ actErr = NoErr
    /\ pcO = "select" /\ result = "none"
    /\ keyChan = << >> /\ keyClosed = TRUE
    /\ dataChan = << >> /\ dataClosed = TRUE /\ doneClosed = FALSE
    /\ pcK = "done" /\ startAfter = startAfterKey(Folder, TestEndUnix - 1)
    /\ endAfter = endAfterKey(Folder, TestEndUnix)
    /\ page = store /\ lastPage = TRUE /\ idx = 2 /\ cursor = store[1]
    /\ pcF = "done" /\ fKey = store[1] /\ fBuf \in LineBuffers
    /\ pcR = "render" /\ rBuf = [key |-> store[1], bytes |-> fBuf] /\ rLine = 0
    /\ output = ""
    /\ examined = store /\ emitted = store /\ listCalls = 1 /\ listFailed = 0
    /\ stopped = FALSE
    /\ downloads = store /\ failedKey = "" /\ rendered = << >>
    /\ lateWrites = FALSE
    /\ windowStr = "" /\ window = WZero(IntLimbs) /\ executeError = NoErr
    /\ unitTesting = FALSE

LineSpec == InitLines /\ [][NextRender]_vars

\* The read command is run with some --window value, no session existing
\* yet.
InitCmd ==
    /\ awsSession = 0 /\ s3 = 0 /\ SourceBuckets = NilSlice
    /\ StartDateTime = 0 /\ EndDateTime = 0
    /\ Content = BASIC
    /\ store = StoreUpTo(TestEndUnix)
    /\ calls = 0 /\ newSessions = 0 /\ actErr = "none"
    /\ pcO = "cmd" /\ result = "none"
    /\ keyChan = << >> /\ keyClosed = FALSE
    /\ dataChan = << >> /\ dataClosed = FALSE /\ doneClosed = FALSE
    /\ pcK = "idle" /\ startAfter = "" /\ endAfter = "" /\ page = << >> /\ lastPage = FALSE /\ idx = 1 /\ cursor = ""
    /\ pcF = "idle" /\ fKey = "" /\ fBuf = ""
    /\ pcR = "idle" /\ rBuf = [key |-> "", bytes |-> ""] /\ rLine = 0
    /\ output = ""
    /\ examined = << >> /\ emitted = << >> /\ listCalls = 0 /\ listFailed = 0 /\ stopped = FALSE
    /\ downloads = << >> /\ failedKey = "" /\ rendered = << >>
    /\ lateWrites = FALSE
    /\ windowStr \in WindowStrs /\ window = WZero(IntLimbs) /\ executeError = NoErr
    /\ unitTesting = FALSE

\* The command, run as it is or prepared by PrepForExecute first, up to the
\* launch of the workers, and its return when the activation of the session
\* fails.
NextCmd ==
    \/ PrepForExecute
    \/ ReadCmd
    \/ DisplayLogStart
    \/ ReadReturn

CmdSpec == InitCmd /\ [][NextCmd]_vars

\* Direct calls of activateSession on a session, followed by the start of
\* DisplayLog on it.
NextAct ==
    \/ Activate
    \/ DisplayLogStart

ActSpec == Init /\ [][NextAct]_vars

(***************************************************************************)
(* Properties of the key enumerator.                                       *)
(***************************************************************************)
\* The 19 bytes of a key that follow the folder prefix: its timestamp.
KeyStamp(key) == SubSeq(key, Len(Folder) + 2, Len(Folder) + 20)

\* The timestamp of the key names a second of [StartDateTime, EndDateTime].
InWindow(key) ==
    /\ StrCmp(KeyStamp(key), FormatKeyTime(StartDateTime)) >= 0
    /\ StrCmp(KeyStamp(key), FormatKeyTime(EndDateTime)) <= 0

IsWindowKey(key) == HasPrefix(key, Folder \o "/") /\ InWindow(key)

\* The keys of the folder whose timestamp lies in the window, in store order.
WindowKeys == SelectSeq(store, IsWindowKey)

\* The enumerator has finished without a listing failure.
EnumerationComplete == pcK = "done" /\ listFailed = 0

\* C1: for a window with start <= end, a finished enumeration has sent
\* exactly the keys whose timestamp lies in [start, end], in listing order,
\* those of the end second with a suffix included.
C1_WindowInclusive ==
    (EnumerationComplete /\ StartDateTime <= EndDateTime) => emitted = WindowKeys

\* The part of C1 that the code keeps: every key sent lies in the window and
\* the keys are sent in listing order.
C1_EmittedWithinWindow ==
    /\ \A i \in 1..Len(emitted) : IsWindowKey(emitted[i])
    /\ \A i \in 1..(Len(emitted) - 1) : StrCmp(emitted[i], emitted[i + 1]) = -1

\* C2: a listed key equal to the end-after cursor is sent on keyChan, and the
\* enumeration stops early only on a key that is not the cursor and is
\* greater than it.
C2_EndCursorIncluded ==
    /\ \A i \in 1..Len(examined) :
         examined[i] = endAfter => \E j \in 1..Len(emitted) : emitted[j] = endAfter
    /\ stopped => /\ examined[Len(examined)] # endAfter
                  /\ StrCmp(endAfter, examined[Len(examined)]) = -1
                  /\ \A i \in 1..(Len(examined) - 1) :
                       StrCmp(examined[i], endAfter) <= 0

\* C2 witness: the key equal to the cursor was listed and sent.
C2_Witness ==
    /\ pcK = "done"
    /\ \E j \in 1..Len(emitted) : emitted[j] = endAfter

\* C3: once a key greater than end-after has been met, no key is sent and no
\* page is requested any more, and the keys sent until then are in listing
\* order.
C3_StopIsFinal ==
    [][ /\ stopped => (emitted' = emitted /\ listCalls' = listCalls /\ stopped')
        /\ stopped' => \A i \in 1..(Len(emitted') - 1) :
                          StrCmp(emitted'[i], emitted'[i + 1]) = -1 ]_vars

\* C3 witness: the enumerator stopped early and finished while the store had
\* further pages, after sending at least two keys.
C3_Witness ==
    /\ stopped /\ pcK = "done" /\ ~lastPage
    /\ Len(emitted) >= 2

(***************************************************************************)
(* Properties of the error paths of DisplayLog.                            *)
(***************************************************************************)
\* C4: when a listing call fails, DisplayLog does not return nil and it does
\* return; after the failure the enumerator sends no key and requests no
\* further page.
C4_ListFailureSurfaces ==
    /\ [][ /\ (listFailed' # 0 /\ pcO' = "returned") => result' # NoErr
           /\ listFailed # 0 => /\ emitted' = emitted
                                /\ listCalls' = listCalls
                                /\ listFailed' = listFailed ]_vars
    /\ (listFailed # 0) ~> (pcO = "returned" /\ result # NoErr)

\* C4 witness: a page after the first failed to list, after keys had been
\* sent, and DisplayLog returned the listing error.
C4_Witness ==
    /\ listFailed > 1 /\ Len(emitted) > 0
    /\ pcO = "returned" /\ result = ErrList
    /\ pcK = "done"

\* C5: after the first failed download the fetcher publishes the error,
\* takes no further key and dataChan is eventually closed, whatever the
\* other stages have reported.
C5_FetcherClosesAfterFailure ==
    /\ [][failedKey # "" => (fKey' = fKey /\ downloads' = downloads)]_vars
    /\ (failedKey # "") ~> dataClosed

\* The content values for which displaySelectLogData has a case, and RAW.
ValidContents == {BASIC, REQUESTID, BUCKET, RICH, RAW}

\* C6 as stated: when a download has failed, the value DisplayLog returns is
\* the download error.
C6_ReturnsDownloadError ==
    (failedKey # "" /\ pcO = "returned") => result = ErrDownload

\* C6 amended: when a download has failed DisplayLog does not return nil; it
\* returns the download error unless the error of another stage that did
\* fail (a listing call, or an unsupported content type) reached the select
\* first.
C6_ReturnsFirstErrorReceived ==
    (failedKey # "" /\ pcO = "returned") =>
        \/ result = ErrDownload
        \/ result = ErrList /\ listFailed # 0
        \/ result = ErrContent(Content) /\ Content \notin ValidContents

\* C6 witness: a download failed and DisplayLog returned its error.
C6_Witness ==
    /\ failedKey # "" /\ pcO = "returned" /\ result = ErrDownload
    /\ pcF = "done"

\* The keys sent on keyChan after key k.
EnumeratedAfter(k) ==
    { emitted[j] : j \in { i \in 1..Len(emitted) :
                             \E h \in 1..(i - 1) : emitted[h] = k } }

\* C7: after the download of a key failed, no key enumerated after it is
\* downloaded, put on dataChan or rendered.
C7_NothingAfterFailedKey ==
    failedKey # "" =>
        /\ downloads[Len(downloads)] = failedKey
        /\ \A k \in EnumeratedAfter(failedKey) :
             /\ \A i \in 1..Len(downloads) : downloads[i] # k
             /\ \A i \in 1..Len(dataChan) : dataChan[i].key # k
             /\ \A i \in 1..Len(rendered) : rendered[i] # k
             /\ pcR = "render" => rBuf.key # k

\* C7 witness: the failure came while later keys were waiting in keyChan,
\* and the fetcher has finished.
C7_Witness ==
    /\ failedKey # "" /\ pcF = "done"
    /\ Len(keyChan) > 0
    /\ EnumeratedAfter(failedKey) # {}

\* C8: with a content value outside the five defined ones DisplayLog returns
\* the unsupported-content-type error, whatever the window holds; the runs
\* in which another stage failed are left aside.
C8_BadContentAlwaysFails ==
    ( /\ Content \notin ValidContents
      /\ pcO = "returned" /\ s3 # 0
      /\ listFailed = 0 /\ failedKey = "" ) => result = ErrContent(Content)

\* The line activateSession prints when session.NewSession fails.
ActivationDiagnostic == "Error creating session:  " \o ErrNewSession \o "\n"

\* No worker has been launched, no request issued, nothing rendered.
PipelineNotStarted ==
    /\ pcK = "idle" /\ pcF = "idle" /\ pcR = "idle"
    /\ listCalls = 0 /\ downloads = << >> /\ rendered = << >>
    /\ keyChan = << >> /\ dataChan = << >>

\* C9 as stated: when activation fails DisplayLog returns the activation
\* error, the pipeline does not start and nothing is written to the output.
C9_FailedActivationSilent ==
    actErr = ErrNewSession =>
        /\ pcO = "returned" /\ result = ErrNewSession
        /\ PipelineNotStarted
        /\ output = ""

\* C9 amended: when activation fails DisplayLog returns the activation error
\* and the pipeline does not start; the output holds the one diagnostic line
\* of activateSession and nothing else.
C9_FailedActivationStopsPipeline ==
    /\ [](actErr = ErrNewSession =>
            /\ pcO = "returned" /\ result = ErrNewSession
            /\ PipelineNotStarted
            /\ output = ActivationDiagnostic
            /\ s3 = 0 /\ awsSession = 0)
    /\ [][actErr = ErrNewSession => UNCHANGED vars]_vars

\* C9 witness: DisplayLog returned the activation error.
C9_Witness ==
    pcO = "returned" /\ result = ErrNewSession /\ actErr = ErrNewSession

\* C10: once an activation has succeeded, every further activation returns
\* nil and leaves both handles as the first one made them; one handle only
\* is ever constructed.
C10_ActivationIdempotent ==
    [][ (s3 # 0 /\ (calls' # calls \/ pcO' # pcO)) =>
            /\ actErr' = NoErr
            /\ s3' = s3 /\ awsSession' = awsSession
            /\ SourceBuckets' = SourceBuckets
            /\ newSessions = 1 /\ newSessions' = 1
            /\ output' = output ]_vars

\* C10 witness: a successful first activation was followed by two further
\* activations, the last of them the one DisplayLog makes.
C10_Witness ==
    /\ calls = 2 /\ pcO = "select"
    /\ output = "" /\ newSessions = 1
    /\ s3 = 1 /\ awsSession = 1

(***************************************************************************)
(* Properties of the pipeline as a whole.                                  *)
(***************************************************************************)
\* C11: when DisplayLog has returned nil, the keys downloaded and the keys
\* of the buffers rendered are the keys sent on keyChan, each once and none
\* missing, nothing is left in a channel or in a worker's hands, and nothing
\* was printed after the return.
C11_NilMeansAllRendered ==
    (pcO = "returned" /\ result = NoErr) =>
        /\ downloads = emitted
        /\ rendered = emitted
        /\ keyChan = << >> /\ dataChan = << >>
        /\ pcK = "done" /\ pcF = "done" /\ pcR = "done"
        /\ ~lateWrites

\* C11 witness: DisplayLog returned nil after at least two objects were
\* rendered with some output.
C11_Witness ==
    /\ pcO = "returned" /\ result = NoErr
    /\ Len(emitted) >= 2 /\ rendered = emitted
    /\ output # ""

\* The keys of the buffers in dataChan, oldest first.
DataKeys == [i \in 1..Len(dataChan) |-> dataChan[i].key]

\* Every key sent so far, from the one furthest down the chain to the one
\* sent last: rendered, in the renderer's hands, in dataChan, in the
\* fetcher's hands, in keyChan.
InPipeline ==
    rendered
    \o (IF pcR = "render" THEN << rBuf.key >> ELSE << >>)
    \o DataKeys
    \o (IF pcF \in {"download", "send"} \/ failedKey # "" THEN << fKey >> ELSE << >>)
    \o keyChan

\* What displayLogData prints for the objects of the given keys, in turn.
RECURSIVE OutputOf(_)
OutputOf(keys) ==
    IF Len(keys) = 0 THEN ""
    ELSE displayed(Content, ObjectBody(Head(keys))).out \o OutputOf(Tail(keys))

\* For a buffer of two records around a blank line, what is printed is what
\* is printed for the first record followed by what is printed for the
\* second, and the two differ.
LineOrderKept ==
    \A c \in {BASIC, REQUESTID, BUCKET, RICH, RAW} :
        /\ displayBuffer(c, LineA \o "\n\n" \o LineB \o "\n").out
             = displayBuffer(c, LineA \o "\n").out
               \o (IF c = RAW THEN "\n" ELSE "")
               \o displayBuffer(c, LineB \o "\n").out
        /\ displayBuffer(c, LineA \o "\n").out # displayBuffer(c, LineB \o "\n").out

\* What the renderer has written so far of the buffer it is rendering.
WrittenOfBuffer ==
    IF pcR = "render"
    THEN Join(SubSeq(displayed(Content, rBuf.bytes).writes, 1, rLine), "")
    ELSE ""

\* C12: the keys keep the order in which they were sent through every stage,
\* the output is what is printed for each rendered buffer in that order,
\* followed by the leading lines, in their order, of what is printed for the
\* buffer being rendered, and within a buffer the lines are printed in their
\* order.
C12_OrderPreserved ==
    /\ s3 # 0 => InPipeline = emitted
    /\ s3 # 0 => output = OutputOf(rendered) \o WrittenOfBuffer
    /\ LineOrderKept

\* C12 witness: two buffers rendered with output and the first of the two
\* records of a third printed, while a fourth waits in dataChan and keys
\* wait in keyChan.
C12_Witness ==
    /\ Len(rendered) >= 2 /\ output # ""
    /\ pcR = "render" /\ rLine = 1 /\ WrittenOfBuffer # ""
    /\ Len(dataChan) >= 1 /\ Len(keyChan) >= 1
    /\ Content \in {BASIC, REQUESTID, BUCKET, RICH}

\* The workers that wait in their send on errChan.
ErrSenders ==
    (IF pcK = "sendErr" THEN {"keys"} ELSE {})
    \cup (IF pcF = "sendErr" THEN {"data"} ELSE {})
    \cup (IF pcR = "sendErr" THEN {"display"} ELSE {})

\* The stage whose error the value stands for.
StageOf(err) ==
    CASE err = ErrList -> "keys"
      [] err = ErrDownload -> "data"
      [] err = ErrContent(Content) -> "display"
      [] OTHER -> "none"

\* C13: DisplayLog has one result, fixed by the first signal its select
\* takes: nil when that is the closed doneChan, else the error of a worker
\* that was waiting to send it; once it has returned the result stays and
\* no further error is received.
C13_SingleTerminalResult ==
    /\ [](pcO # "returned" <=> result = "none")
    /\ [][ /\ (pcO = "select" /\ pcO' = "returned") =>
                \/ result' = NoErr /\ doneClosed /\ ErrSenders = {}
                                   /\ UNCHANGED << pcK, pcF, pcR >>
                \/ /\ StageOf(result') \in ErrSenders
                   /\ ErrSenders' = ErrSenders \ {StageOf(result')}
           /\ pcO = "returned" =>
                /\ pcO' = "returned" /\ result' = result
                /\ ErrSenders \subseteq ErrSenders' ]_vars

\* C13 witness: DisplayLog returned the error of one stage while another
\* stage waits to send its own.
C13_Witness ==
    /\ pcO = "returned" /\ result = ErrList
    /\ pcF = "sendErr"

\* C14: after DisplayLog has returned from a started pipeline, each of the
\* three workers comes to its end.
C14_WorkersTerminate ==
    (pcO = "returned" /\ s3 # 0) ~> (pcK = "done" /\ pcF = "done" /\ pcR = "done")

\* C15: after a failed download, and with no listing failure, the
\* enumerator comes to its end however many keys of the window remain.
C15_EnumeratorFinishes ==
    (failedKey # "") ~> (pcK = "done" \/ listFailed # 0)

\* The renderer has met an unsupported content type.
RenderFailed == pcR = "sendErr" \/ (pcR = "done" /\ ~doneClosed)

\* C16: a stage that meets an error goes to its send on errChan, once, and
\* from then on it is at that send or past it and produces nothing: the
\* enumerator sends no key and requests no page, the fetcher downloads
\* nothing and adds no buffer to dataChan, the renderer prints nothing and
\* doneChan stays open.
C16_ReportOnceThenSilent ==
    /\ [](listFailed # 0 => pcK \in {"sendErr", "close", "done"})
    /\ [](failedKey # "" => pcF \in {"sendErr", "close", "done"})
    /\ [][ /\ (listFailed = 0 /\ listFailed' # 0) => pcK' = "sendErr"
           /\ (failedKey = "" /\ failedKey' # "") => pcF' = "sendErr"
           /\ (pcR = "render" /\ displayed(Content, rBuf.bytes).err # NoErr)
                => (pcR' = "render" \/ pcR' = "sendErr")
           /\ listFailed # 0 =>
                /\ emitted' = emitted /\ Len(keyChan') <= Len(keyChan)
                /\ listCalls' = listCalls
                /\ pcK # "sendErr" => pcK' # "sendErr"
           /\ failedKey # "" =>
                /\ downloads' = downloads /\ failedKey' = failedKey
                /\ Len(dataChan') <= Len(dataChan)
                /\ pcF # "sendErr" => pcF' # "sendErr"
           /\ RenderFailed =>
                /\ output' = output /\ rendered' = rendered
                /\ ~doneClosed' /\ RenderFailed'
                /\ pcR # "sendErr" => pcR' # "sendErr" ]_vars

\* C16 witness: the three stages have each met an error; the renderer's was
\* received and the other two wait at their send.
C16_Witness ==
    /\ pcO = "returned" /\ result = ErrContent(Content)
    /\ pcR = "done" /\ ~doneClosed
    /\ pcK = "sendErr" /\ pcF = "sendErr"

(***************************************************************************)
(* Properties of what is printed.                                          *)
(***************************************************************************)
\* The stored bytes of the objects of the given keys, one after the other.
RECURSIVE ConcatBodies(_)
ConcatBodies(keys) ==
    IF Len(keys) = 0 THEN ""
    ELSE ObjectBody(Head(keys)) \o ConcatBodies(Tail(keys))

\* C17: with RAW the output is at every moment the stored bytes of the
\* objects rendered so far, in the order of their keys, and nothing else;
\* when DisplayLog returns nil it is the bytes of all the objects whose keys
\* were sent, and for one object it is that object's bytes.
C17_RawVerbatim ==
    (Content = RAW /\ s3 # 0) =>
        /\ output = ConcatBodies(rendered)
        /\ Len(rendered) = 1 => output = ObjectBody(rendered[1])
        /\ (pcO = "returned" /\ result = NoErr) => output = ConcatBodies(emitted)

\* C17 witness: a RAW run returned nil after rendering several objects, one
\* of them holding two records.
C17_Witness ==
    /\ Content = RAW /\ pcO = "returned" /\ result = NoErr
    /\ Len(rendered) >= 3
    /\ \E i \in 1..Len(rendered) : KeySuffix(rendered[i]) = "-B"
    /\ output = ConcatBodies(emitted)

\* The keys of the store that the two cursors of the window let through, in
\* store order: a function of the store, the folder and the window alone.
CursorKeys ==
    LET after == startAfterKey(Folder, StartDateTime)
        upto  == endAfterKey(Folder, EndDateTime)
    IN  SelectSeq(store, LAMBDA k : /\ HasPrefix(k, Folder \o "/")
                                    /\ StrGreater(k, after)
                                    /\ ~StrGreater(k, upto))

\* C18: with RAW what is printed is fixed by the stored objects and the
\* window, whatever SourceBuckets holds: at every moment the bytes of the
\* first objects between the cursors, and all of them when DisplayLog
\* returns nil.
C18_RawIgnoresFilter ==
    (Content = RAW /\ s3 # 0) =>
        /\ Len(rendered) <= Len(CursorKeys)
        /\ output = ConcatBodies(SubSeq(CursorKeys, 1, Len(rendered)))
        /\ (pcO = "returned" /\ result = NoErr) => output = ConcatBodies(CursorKeys)

\* C18 witness: a RAW run with a filter that matches no record returned nil
\* with the records printed.
C18_Witness ==
    /\ Content = RAW /\ SourceBuckets.items = << "zz" >>
    /\ pcO = "returned" /\ result = NoErr
    /\ Len(rendered) >= 3 /\ output = ConcatBodies(CursorKeys)
    /\ Len(output) > Len(LineA)

\* The field of a record that names the bucket it was served from.
ServingBucket(line) == Split(line, " ")[2]

\* The records among the lines from position i on that a filter lets
\* through, each followed by a newline.
RECURSIVE KeptFrom(_, _, _)
KeptFrom(lines, items, i) ==
    IF i > Len(lines) THEN ""
    ELSE (IF /\ Len(lines[i]) > 0
             /\ \E j \in 1..Len(items) : items[j] = ServingBucket(lines[i])
          THEN lines[i] \o "\n" ELSE "")
         \o KeptFrom(lines, items, i + 1)

\* What a session with a filter is to print for the objects of the given
\* keys.
RECURSIVE FilteredOutputOf(_)
FilteredOutputOf(keys) ==
    IF Len(keys) = 0 THEN ""
    ELSE displayBuffer(Content, KeptFrom(Split(ObjectBody(Head(keys)), "\n"),
                                         SourceBuckets.items, 1)).out
         \o FilteredOutputOf(Tail(keys))

\* C19: with a filter and a content other than RAW, the lines printed are
\* those of the records served from a bucket of the filter, and none when
\* the filter names no bucket of the data.
C19_FilterApplied ==
    ( /\ Content \in {BASIC, REQUESTID, BUCKET, RICH}
      /\ Len(SourceBuckets.items) > 0 /\ s3 # 0 ) =>
        /\ output = FilteredOutputOf(rendered)
        /\ SourceBuckets.items = << "zz" >> => output = ""

\* The number of bytes printed for the buffer of the renderer under the
\* given content.
OutLen(content) == Len(displayed(content, rBuf.bytes).out)

\* The renderer has printed its buffer under one of the five contents.
HasRendered == rendered # << >> /\ Content \in ValidContents

\* C20 as stated: for one input the output grows strictly along
\* BASIC, REQUESTID, BUCKET, RICH, RAW (the values 0 to 4 in that order).
C20_StrictChain ==
    HasRendered =>
        \A c \in ValidContents :
            /\ c < Content => OutLen(c) < Len(output)
            /\ c > Content => Len(output) < OutLen(c)

\* The pairs of contents of which the first prints less than the second for
\* every input: all pairs of the chain but REQUESTID and BUCKET.
PrintsLess ==
    { << BASIC, REQUESTID >>, << BASIC, BUCKET >>, << BASIC, RICH >>,
      << BASIC, RAW >>, << REQUESTID, RICH >>, << REQUESTID, RAW >>,
      << BUCKET, RICH >>, << BUCKET, RAW >>, << RICH, RAW >> }

\* C20 amended: the output for one input grows strictly from BASIC to
\* REQUESTID and to BUCKET, from each of these to RICH, and from RICH to RAW.
C20_StrictOrder ==
    HasRendered =>
        \A c \in ValidContents :
            /\ << c, Content >> \in PrintsLess => OutLen(c) < Len(output)
            /\ << Content, c >> \in PrintsLess => Len(output) < OutLen(c)

\* C20 witness: a BUCKET rendering of a record whose request id is longer
\* than its bucket name, longer than the REQUESTID rendering would not be.
C20_Witness ==
    /\ rendered # << >> /\ Content = BUCKET
    /\ Len(output) < OutLen(REQUESTID)
    /\ OutLen(BASIC) < Len(output) /\ Len(output) < OutLen(RICH)

\* The pairs of contents whose output lengths TestReadContentTypes compares:
\* the first of a pair prints less than the second.
TestedPairs ==
    { << BASIC, REQUESTID >>, << BASIC, BUCKET >>, << BUCKET, RICH >>,
      << BASIC, RAW >>, << REQUESTID, RAW >>, << BUCKET, RAW >>, << RICH, RAW >> }

\* C21: for one buffer of well-formed records the BASIC output is not empty,
\* REQUESTID and BUCKET each print more than BASIC, RICH prints more than
\* BUCKET, and RAW prints more than each of the four others.
C21_TestedLengths ==
    HasRendered =>
        /\ Len(output) = OutLen(Content)
        /\ OutLen(BASIC) > 0
        /\ \A p \in TestedPairs :
               /\ p[1] = Content => Len(output) < OutLen(p[2])
               /\ p[2] = Content => OutLen(p[1]) < Len(output)

\* C21 witness: a RICH rendering of a buffer of two records, longer than the
\* BUCKET rendering and shorter than the buffer itself.
C21_Witness ==
    /\ rendered # << >> /\ Content = RICH
    /\ Len(Split(output, "\n")) = 3
    /\ OutLen(BUCKET) < Len(output) /\ Len(output) < Len(rBuf.bytes)

\* The number of line feeds in s: the number of lines printed with Println.
CountLF(s) == Cardinality({ i \in 1..Len(s) : SubSeq(s, i, i) = "\n" })

\* The lines of a buffer: the pieces between its line feeds, a last piece of
\* length zero being no line.
LinesOf(bytes) ==
    LET pieces == Split(bytes, "\n")
    IN  IF pieces[Len(pieces)] = "" THEN SubSeq(pieces, 1, Len(pieces) - 1) ELSE pieces

\* The renderer has dealt with its buffer under one of the four selective
\* contents.
SelectRendered == rendered # << >> /\ Content \in {BASIC, REQUESTID, BUCKET, RICH}

\* C22: under BASIC, REQUESTID, BUCKET and RICH the number of lines printed
\* for a buffer is at most the number of lines of the buffer, for every
\* buffer: blank lines, records, lines of too few fields.
C22_NoMoreLinesThanRaw ==
    SelectRendered =>
        /\ CountLF(output) <= Len(LinesOf(rBuf.bytes))
        /\ CountLF(output) <= CountLF(displayed(RAW, rBuf.bytes).out) + 1

\* C22 witness: a buffer of three lines, one of them blank, of which two
\* were printed.
C22_Witness ==
    /\ SelectRendered
    /\ Len(LinesOf(rBuf.bytes)) = 3
    /\ \E i \in 1..3 : LinesOf(rBuf.bytes)[i] = ""
    /\ CountLF(output) = 2

\* C23: keyChan is closed in one step only, the close(keyChan) of the
\* enumerator, and is never closed again or sent on afterwards; the
\* enumerator has finished exactly when keyChan is closed; and when it is
\* closed after a listing without failure, every key between the cursors
\* has been sent, the last page having been consumed or the early exit
\* taken.
C23_KeysClosedOnceAtEnd ==
    /\ [](/\ (pcK = "done") <=> keyClosed
          /\ (keyClosed /\ listFailed = 0) =>
                 /\ emitted = CursorKeys
                 /\ stopped \/ (lastPage /\ idx > Len(page)))
    /\ [][/\ keyClosed' # keyClosed =>
                 (~keyClosed /\ keyClosed' /\ pcK = "close" /\ pcK' = "done")
          /\ keyClosed =>
                 (emitted' = emitted /\ Len(keyChan') <= Len(keyChan) /\ pcK' = pcK)]_vars

\* C23 witness: keyChan closed after an early exit on the second page or
\* later, three keys or more having been sent.
C23_Witness ==
    /\ keyClosed /\ stopped /\ listFailed = 0 /\ listCalls >= 2
    /\ Len(emitted) >= 3 /\ emitted = CursorKeys

\* The keys the enumerator has sent and the renderer has not yet rendered.
KeysAhead == Len(emitted) - Len(rendered)

\* C24: keyChan never holds more than 5 keys nor dataChan more than 5
\* buffers; while a channel is full its producer sends nothing and the
\* channel loses nothing but the item its consumer receives; the enumerator
\* is never more than the two capacities and the two items in the hands of
\* the fetcher and the renderer ahead of the renderer.
C24_BoundedChannels ==
    /\ [](/\ Len(keyChan) <= KeyChanCap
          /\ Len(dataChan) <= DataChanCap
          /\ KeysAhead <= KeyChanCap + DataChanCap + 2)
    /\ [][/\ Len(keyChan) = KeyChanCap =>
                 (emitted' = emitted /\ keyChan' \in {keyChan, Tail(keyChan)})
          /\ Len(dataChan) = DataChanCap =>
                 (dataChan' \in {dataChan, Tail(dataChan)})
          /\ (Len(keyChan) < KeyChanCap /\ keyChan' # keyChan) =>
                 \/ keyChan # << >> /\ keyChan' = Tail(keyChan)
                 \/ Len(emitted') = Len(emitted) + 1
                    /\ keyChan' = Append(keyChan, emitted'[Len(emitted')])]_vars

\* C24 witness: both channels full, the fetcher and the renderer each
\* holding an item, the enumerator waiting to send a thirteenth key.
C24_Witness ==
    /\ Len(keyChan) = KeyChanCap /\ Len(dataChan) = DataChanCap
    /\ KeysAhead = KeyChanCap + DataChanCap + 2
    /\ pcK = "loop" /\ KeyAction(page[idx], Folder, endAfter) = "emit"
    /\ pcF = "send" /\ pcR = "render"

\* C25: once DisplayLog has launched its workers with a valid content, a run
\* in which no listing request and no download fails leads to DisplayLog
\* returning nil, every key of the window having been rendered, however many
\* keys the window holds.
C25_FaultFreeRunReturnsNil ==
    (pcO = "select" /\ Content \in ValidContents) ~>
        \/ listFailed # 0
        \/ failedKey # ""
        \/ /\ pcO = "returned" /\ result = NoErr
           /\ rendered = CursorKeys

\* C25 witness: DisplayLog returned nil without any failure after more keys
\* went through the pipeline than the two channels hold together.
C25_Witness ==
    /\ pcO = "returned" /\ result = NoErr
    /\ listFailed = 0 /\ failedKey = ""
    /\ Len(rendered) > KeyChanCap + DataChanCap + 2
    /\ rendered = CursorKeys

(***************************************************************************)
(* Properties of the read command.                                         *)
(***************************************************************************)
\* The command has populated a SlogSession and gone on to call DisplayLog.
SessionHanded == pcO \notin {"cmd", "rejected", "executed"}

\* The command has populated a SlogSession, handed to DisplayLog or, under
\* unit test, kept.
SessionMade == SessionHanded \/ (pcO = "executed" /\ executeError = NoErr)

\* C26: every session the read command hands to DisplayLog has an
\* EndDateTime that is not before its StartDateTime.
C26_EndNotBeforeStart ==
    SessionHanded => EndDateTime >= StartDateTime

\* Limbs enough to hold the product of any int and the nanoseconds of a day
\* without wrapping.
WideLimbs == 8

\* s is an integer in decimal, with or without sign, followed by one of the
\* unit letters.
IsCountAndUnit(s) ==
    /\ Len(s) >= 2
    /\ SubSeq(s, Len(s), Len(s)) \in {"d", "h", "m", "s"}
    /\ LET n == SubSeq(s, 1, Len(s) - 1)
           digits == IF SubSeq(n, 1, 1) \in {"+", "-"} THEN SubSeq(n, 2, Len(n)) ELSE n
       IN  Len(digits) > 0 /\ AllDigits(digits)

\* The nanoseconds of N days, hours, minutes or seconds for the count N and
\* the unit of such a string, as an unbounded integer (in WideLimbs limbs).
ExactDuration(s) ==
    LET n      == SubSeq(s, 1, Len(s) - 1)
        unit   == SubSeq(s, Len(s), Len(s))
        neg    == SubSeq(n, 1, 1) = "-"
        digits == IF SubSeq(n, 1, 1) \in {"+", "-"} THEN SubSeq(n, 2, Len(n)) ELSE n
        count  == MagnitudeFrom(digits, 1, WZero(WideLimbs), FALSE).word
        nanos  == WMulAll(count, CASE unit = "d" -> << 24 >> \o Hour
                                   [] unit = "h" -> Hour
                                   [] unit = "m" -> Minute
                                   [] OTHER -> Second)
    IN  IF neg THEN WNeg(nanos) ELSE nanos

\* The command got as far as calling parseTimeWindow(windowStr).
WindowParsed ==
    \/ SessionMade
    \/ pcO \in {"rejected", "executed"} /\ executeError = ErrInvalidWindow \o ErrWindow

\* C27: parseTimeWindow gives N days of 24 hours, N hours, N minutes or N
\* seconds, without error, for an integer N followed by d, h, m or s, and
\* the error "Cannot parse time window length" with a zero duration for
\* every other string.
C27_WindowIsCountTimesUnit ==
    WindowParsed =>
        IF IsCountAndUnit(windowStr)
        THEN SessionMade /\ WExtend(window, WideLimbs) = ExactDuration(windowStr)
        ELSE /\ executeError = ErrInvalidWindow \o ErrWindow
             /\ window = WZero(IntLimbs)

\* The lines of a buffer that are not of length zero.
NonEmptyLines(bytes) == SelectSeq(Split(bytes, "\n"), LAMBDA l : Len(l) > 0)

\* C28: under BASIC, REQUESTID, BUCKET and RICH, without filter, the lines
\* printed for a buffer are as many as the lines of the buffer that are not
\* of length zero, one for each.
C28_OneLinePerNonEmptyLine ==
    (SelectRendered /\ Len(SourceBuckets.items) = 0) =>
        CountLF(output) = Len(NonEmptyLines(rBuf.bytes))

\* The space-separated fields of line i of the buffer of the renderer, and
\* of line i of what is printed for that buffer under the given content.
FieldsOf(i) == Split(LinesOf(rBuf.bytes)[i], " ")
PrintedFields(content, i) == Split(LinesOf(displayed(content, rBuf.bytes).out)[i], " ")

\* The sequence s with the sequence ins put in after its first n elements.
InsertAfter(s, n, ins) == SubSeq(s, 1, n) \o ins \o SubSeq(s, n + 1, Len(s))

\* C29: for each record, what REQUESTID prints is what BASIC prints with the
\* request id (field 6) put in after the three leading fields; what BUCKET
\* prints is what BASIC prints with the serving bucket (field 1) in front;
\* what RICH prints is what BUCKET prints with fields 6 to 8 put in after
\* its four leading fields.  The fields of BASIC are thus kept, in order, by
\* the three others.
C29_ProfilesAddFields ==
    HasRendered =>
        /\ Len(LinesOf(output)) = Len(LinesOf(rBuf.bytes))
        /\ \A i \in 1..Len(LinesOf(rBuf.bytes)) :
               LET now == Split(LinesOf(output)[i], " ")
                   p   == FieldsOf(i)
               IN  /\ Content = REQUESTID =>
                          now = InsertAfter(PrintedFields(BASIC, i), 3, << p[7] >>)
                   /\ Content = BUCKET =>
                          now = << p[2] >> \o PrintedFields(BASIC, i)
                   /\ Content = RICH =>
                          now = InsertAfter(PrintedFields(BUCKET, i), 4,
                                            << p[7], p[8], p[9] >>)
                   /\ Content = BASIC =>
                          /\ Len(PrintedFields(REQUESTID, i)) = Len(now) + 1
                          /\ Len(PrintedFields(BUCKET, i)) = Len(now) + 1
                          /\ Len(PrintedFields(RICH, i)) = Len(now) + 4

\* C29 witness: a REQUESTID rendering of two records whose request ids
\* differ from every other field of theirs.
C29_Witness ==
    /\ rendered # << >> /\ Content = REQUESTID
    /\ Len(LinesOf(output)) = 2
    /\ \A i \in 1..2 :
           /\ Split(LinesOf(output)[i], " ")[4] = FieldsOf(i)[7]
           /\ \A k \in 1..Len(FieldsOf(i)) : k # 7 => FieldsOf(i)[k] # FieldsOf(i)[7]

\* The number of fields of a record whose user agent is one word, and of
\* the fields of it that come before field 9 or are among the last seven.
PlainFieldCount == Len(Split(MakeLine("b", "q", "U"), " "))
OuterFieldCount == 9 + 7

\* C30: under BASIC, REQUESTID, BUCKET and RICH, for a record whose user
\* agent has k words more than one, the printed line ends with field
\* count-8, the last seven fields being left out; its last count-16 fields
\* are the fields 9 to count-8 of the record, the words of the user agent
\* among them in order; and the fields printed before the user agent are
\* those printed for the same record with a user agent of one word.
C30_AnchoredAtBothEnds ==
    SelectRendered =>
        \A b \in BucketNames, q \in RequestIDs, a \in Agents :
            LinesOf(rBuf.bytes)[1] = MakeLine(b, q, a) =>
                LET now   == Split(LinesOf(output)[1], " ")
                    p     == FieldsOf(1)
                    k     == Len(Split(a, " ")) - 1
                    plain == Split(LinesOf(displayed(Content, MakeLine(b, q, "U") \o "\n").out)[1], " ")
                    mid   == Len(p) - OuterFieldCount
                IN  /\ Len(p) = PlainFieldCount + k
                    /\ Len(now) = Len(plain) + k
                    /\ now[Len(now)] = p[Len(p) - 7]
                    /\ SubSeq(now, Len(now) - mid + 1, Len(now)) = SubSeq(p, 10, Len(p) - 7)
                    /\ SubSeq(now, 1, Len(now) - k - 1) = SubSeq(plain, 1, Len(plain) - 1)
                    /\ Join(SubSeq(now, Len(now) - k, Len(now)), " ") = "\"" \o a \o "\""

\* C30 witness: a BASIC rendering of a record whose user agent has three
\* words, all three printed at the end of the line.
C30_Witness ==
    /\ rendered # << >> /\ Content = BASIC
    /\ \E b \in BucketNames, q \in RequestIDs :
           /\ LinesOf(rBuf.bytes)[1] = MakeLine(b, q, "U a b")
           /\ Len(FieldsOf(1)) = PlainFieldCount + 2
           /\ SubSeq(Split(LinesOf(output)[1], " "), 14, 16) = << "\"U", "a", "b\"" >>

(***************************************************************************)
(* Properties of the channels.                                             *)
(***************************************************************************)
\* C31: a step that puts an item on keyChan or dataChan is taken by its one
\* producer (the enumerator in its loop, the fetcher at its send) while the
\* channel is open; a channel is closed by one step of its owner (the
\* enumerator at core.go:138, the fetcher at session.go:112, the renderer
\* at session.go:144), which then has ended, so that no send and no second
\* close can follow; a closed channel stays closed; and errChan is never
\* closed: a worker waiting to send its error leaves the send only when the
\* select of DisplayLog receives it.
C31_SendsBeforeTheOneClose ==
    /\ [](/\ keyClosed => pcK = "done"
          /\ dataClosed => pcF = "done"
          /\ doneClosed => pcR = "done")
    /\ [][ /\ Len(keyChan') > Len(keyChan) =>
                ~keyClosed /\ ~keyClosed' /\ pcK = "loop"
           /\ Len(dataChan') > Len(dataChan) =>
                ~dataClosed /\ ~dataClosed' /\ pcF = "send"
           /\ keyClosed' # keyClosed =>
                ~keyClosed /\ pcK = "close" /\ pcK' = "done"
                /\ UNCHANGED << pcO, pcF, pcR, keyChan >>
           /\ dataClosed' # dataClosed =>
                ~dataClosed /\ pcF \in {"recv", "close"} /\ pcF' = "done"
                /\ UNCHANGED << pcO, pcK, pcR, dataChan >>
           /\ doneClosed' # doneClosed =>
                ~doneClosed /\ pcR = "recv" /\ pcR' = "done"
                /\ UNCHANGED << pcO, pcK, pcF >>
           /\ pcK = "done" => pcK' = "done"
           /\ pcF = "done" => pcF' = "done"
           /\ pcR = "done" => pcR' = "done"
           /\ (pcK = "sendErr" /\ pcK' # "sendErr") =>
                pcO = "select" /\ pcO' = "returned" /\ result' = ErrList
           /\ (pcF = "sendErr" /\ pcF' # "sendErr") =>
                pcO = "select" /\ pcO' = "returned" /\ result' = ErrDownload
           /\ (pcR = "sendErr" /\ pcR' # "sendErr") =>
                pcO = "select" /\ pcO' = "returned" /\ result' = ErrContent(Content) ]_vars

\* C31 witness: a run in which a later listing request failed and keys had
\* been sent and rendered; DisplayLog returned the listing error, and the
\* three channels have each been closed since.
C31_Witness ==
    /\ keyClosed /\ dataClosed /\ doneClosed
    /\ Len(emitted) > 0 /\ Len(rendered) > 0
    /\ listFailed > 1 /\ result = ErrList

\* Some stage has met an error: a listing request failed, a download
\* failed, or the renderer met an unsupported content type.
StageFailed == listFailed # 0 \/ failedKey # "" \/ RenderFailed

\* C32: when DisplayLog has returned nil, no listing request has failed, no
\* download has failed and the renderer has met no error; and whenever
\* doneChan is closed in a run in which a stage did fail, the select of
\* DisplayLog has already received an error and returned it: the closed
\* doneChan is never what the select sees after a failure.
C32_NilOnlyWithoutFailure ==
    /\ (pcO = "returned" /\ result = NoErr) => ~StageFailed
    /\ (doneClosed /\ StageFailed) =>
           pcO = "returned" /\ result \in {ErrList, ErrDownload, ErrContent(Content)}
    /\ (pcO = "select" /\ StageFailed) => ~doneClosed

\* C32 witness: a download failed after an earlier buffer was fetched; the
\* error was received, then the fetcher closed dataChan, the renderer
\* printed the earlier buffer and closed doneChan: DisplayLog has returned
\* the download error.
C32_Witness ==
    /\ doneClosed /\ failedKey # ""
    /\ Len(rendered) > 0
    /\ pcO = "returned" /\ result = ErrDownload

\* C33: in every reachable state, doneChan closed implies dataChan closed
\* and empty; and dataChan closed, no download having failed, implies
\* keyChan closed and empty.
C33_ClosuresInPipelineOrder ==
    /\ doneClosed => (dataClosed /\ dataChan = << >>)
    /\ (dataClosed /\ failedKey = "") => (keyClosed /\ keyChan = << >>)

\* C33 witness: several objects were downloaded without failure and the
\* renderer has closed doneChan, which the select has not yet taken.
C33_Witness ==
    /\ doneClosed /\ dataClosed /\ keyClosed
    /\ failedKey = "" /\ Len(downloads) > 1
    /\ pcO = "select"

\* C34: under the fair scheduling of the goroutines, a DisplayLog that has
\* launched its workers and waits in its select comes to return, with nil
\* or with the error of a stage, whatever listing requests and downloads
\* fail and whatever the content type is.
C34_DisplayLogReturns ==
    (pcO = "select") ~>
        (pcO = "returned" /\ result \in {NoErr, ErrList, ErrDownload, ErrContent(Content)})

\* C34 witness: a listing request failed, a download failed and the
\* renderer met an unsupported content type in the same run, and DisplayLog
\* has returned the error of the fetcher.
C34_Witness ==
    /\ listFailed # 0 /\ failedKey # "" /\ RenderFailed
    /\ pcO = "returned" /\ result = ErrDownload

(***************************************************************************)
(* Lines of too few fields.                                                *)
(***************************************************************************)
\* C35: whatever lines the buffer holds and whichever of BASIC, REQUESTID,
\* BUCKET and RICH is asked for, the renderer is not ended by a slice
\* expression out of range: having dealt with the buffer it goes on to its
\* next receive or to the send of an error.
C35_RenderingNeverAborts ==
    (rendered # << >> /\ Content \in {BASIC, REQUESTID, BUCKET, RICH}) =>
        pcR \in {"recv", "sendErr", "done"}

\* C36: when DisplayLog has returned nil the enumerator, the fetcher and
\* the renderer have each ended, none of them waiting on a channel;
\* keyChan and dataChan are closed and empty and doneChan is closed; and
\* from then on no step changes a channel or the position of a worker.
C36_NilReturnLeavesNoWorker ==
    /\ []((pcO = "returned" /\ result = NoErr) =>
              /\ pcK = "done" /\ pcF = "done" /\ pcR = "done"
              /\ keyClosed /\ keyChan = << >>
              /\ dataClosed /\ dataChan = << >>
              /\ doneClosed)
    /\ [][(pcO = "returned" /\ result = NoErr) =>
              UNCHANGED << chanVars, pcK, pcF, pcR >>]_vars

\* C36 witness: DisplayLog returned nil from a REQUESTID run that sent more
\* keys than keyChan holds, and every worker has ended.
C36_Witness ==
    /\ pcO = "returned" /\ result = NoErr
    /\ Content = REQUESTID
    /\ Len(emitted) > KeyChanCap
    /\ pcK = "done" /\ pcF = "done" /\ pcR = "done"

(***************************************************************************)
(* Output and the return of DisplayLog.                                    *)
(***************************************************************************)
\* C37: once DisplayLog has returned, with nil or with an error, no step
\* adds anything to the output.
C37_NothingWrittenAfterReturn ==
    [][pcO = "returned" => output' = output]_vars

(***************************************************************************)
(* Failed activation.                                                      *)
(***************************************************************************)
\* A call of activateSession is made in this step: a direct one, or the one
\* at the head of DisplayLog.
ActivationStep == calls' # calls \/ (pcO = "start" /\ pcO' # "start")

\* C38: a call of activateSession that returns an error leaves the session
\* as it was: the AWS session handle and the S3 client are nil before and
\* after, SourceBuckets keeps its value (a nil slice stays nil), and no
\* handle has been constructed; so a session whose latest activation
\* failed is unactivated, and a call on it that succeeds constructs the
\* handles as a first call does.
C38_FailedActivationChangesNothing ==
    /\ [](actErr = ErrNewSession => (s3 = 0 /\ awsSession = 0))
    /\ [][ /\ (ActivationStep /\ actErr' = ErrNewSession) =>
                /\ s3 = 0 /\ s3' = 0
                /\ awsSession = 0 /\ awsSession' = 0
                /\ SourceBuckets' = SourceBuckets
                /\ newSessions' = newSessions
                /\ UNCHANGED << StartDateTime, EndDateTime, Content >>
           /\ (ActivationStep /\ actErr = ErrNewSession /\ actErr' = NoErr) =>
                /\ s3' = newSessions + 1 /\ awsSession' = newSessions + 1
                /\ newSessions' = newSessions + 1
                /\ SourceBuckets' = IF SourceBuckets.isNil THEN EmptySlice
                                    ELSE SourceBuckets ]_vars

\* C38 witness: two direct calls on a session with a nil SourceBuckets have
\* both failed; the session has no handle and SourceBuckets is still nil.
C38_Witness ==
    /\ calls = 2 /\ actErr = ErrNewSession
    /\ s3 = 0 /\ awsSession = 0 /\ newSessions = 0
    /\ SourceBuckets = NilSlice
    /\ output = "Error creating session:  " \o ErrNewSession \o "\n"
                \o "Error creating session:  " \o ErrNewSession \o "\n"

(***************************************************************************)
(* A window that ends before it starts.                                    *)
(***************************************************************************)
\* The session's EndDateTime is earlier than its StartDateTime.
InvertedWindow == EndDateTime < StartDateTime

\* C39: with EndDateTime earlier than StartDateTime and whatever the store
\* holds, the enumerator never sends a key: it requests one page at most,
\* looks at one entry of it at most, the first, which is beyond endAfter
\* and ends the enumeration; nothing is downloaded, rendered or printed by
\* the pipeline; a DisplayLog that returns without a failed listing
\* request returns nil; and under fair scheduling, unless that one listing
\* request fails, DisplayLog does return nil, keyChan closed and the output
\* empty.
C39_InvertedWindowIsEmpty ==
    /\ []((InvertedWindow /\ s3 # 0) =>
              /\ emitted = << >> /\ keyChan = << >>
              /\ listCalls <= 1
              /\ Len(examined) <= 1
              /\ (examined # << >> => (stopped /\ StrGreater(examined[1], endAfter)))
              /\ downloads = << >> /\ rendered = << >>
              /\ output = ""
              /\ (pcO = "returned" /\ listFailed = 0) => result = NoErr)
    /\ (InvertedWindow /\ pcO = "select") ~>
           \/ listFailed # 0
           \/ /\ pcO = "returned" /\ result = NoErr
              /\ keyClosed /\ output = ""

\* C39 witness: the window ends a second before it starts and the store
\* holds objects after the start; the first listed key ended the
\* enumeration, and DisplayLog has returned nil having printed nothing.
C39_Witness ==
    /\ EndDateTime = StartDateTime - 1
    /\ listCalls = 1 /\ Len(examined) = 1 /\ stopped
    /\ emitted = << >> /\ keyClosed
    /\ pcO = "returned" /\ result = NoErr
    /\ output = ""

====
